---- MODULE Spec2Model ----
(***************************************************************************)
(* State-machine model of the daily-assistant action pipeline:             *)
(* scope resolution (scopeParser), the action router, the todo / shopping /*)
(* calendar handlers and their MySQL-backed models.                        *)
(*                                                                         *)
(* Conventions                                                             *)
(*   - text values are sequences of one-character strings, so that         *)
(*     replace('@',''), trim(), toLowerCase() and LIKE are computed;       *)
(*   - SQL NULL / JS null of a numeric column is NULL (0: ids and times    *)
(*     start at 1, and the code itself tests them with `x || null`);       *)
(*   - SQL NULL / JS null of a text column and of the JSON assignee list   *)
(*     is the empty sequence (parseScope never yields an empty list);      *)
(*   - a parameter missing from the classifier's JSON is UNDEF.            *)
(***************************************************************************)
EXTENDS Integers, Sequences, FiniteSets, TLC

VARIABLES
    chkEnforced,   \* whether the MySQL server enforces CHECK constraints
    members,       \* group_members rows of the group: set of user ids
    todos,         \* todos table: set of rows
    shopping,      \* shopping_items table: set of rows
    events,        \* calendar_events table: set of rows
    todoSeq,       \* AUTO_INCREMENT counter of todos
    shopSeq,       \* AUTO_INCREMENT counter of shopping_items
    eventSeq,      \* AUTO_INCREMENT counter of calendar_events
    lastMsg,       \* the message last handled: sender, chat, classified action
    lastResult,    \* the HandlerResult of the message last handled
    scopeIn,       \* arguments of the parseScope call under test
    scopeOut,      \* its outcome
    classified,    \* the classifier calls made for the message last handled
    faults,        \* what failed while the message last handled was handled
    audit,         \* the audit rows stored for the message last handled
    scheduler,     \* the clock and the reminders of the last two ticks
    zones,         \* the timezone columns, and the last timezone selection
    sessions       \* messages being handled at the same time, and their tables

vars == <<chkEnforced, members, todos, shopping, events, todoSeq, shopSeq,
          eventSeq, lastMsg, lastResult, scopeIn, scopeOut, classified,
          faults, audit, scheduler, zones, sessions>>

-----------------------------------------------------------------------------
(* Bounds of the model *)

\* rows ever inserted, all three tables together
MaxRows == 2

\* longest scope_users list drawn for a parseScope call
MaxNames == 2

-----------------------------------------------------------------------------
(* Values *)

NULL == 0

NOSTR == <<>>

UNDEF == <<"undefined">>

\* users table: three registered users, timezone 'UTC' (the column default)
Users == {1, 2, 3}

\* the one group chat known to the bot
GroupId == 1

UserRow(id) ==
    CASE id = 1 -> [id |-> 1, custom_name |-> <<"A">>, display_name |-> <<"A", "b">>,
                    telegram_username |-> NOSTR, timezone |-> "UTC"]
      [] id = 2 -> [id |-> 2, custom_name |-> NOSTR, display_name |-> <<"B">>,
                    telegram_username |-> <<"b", "o">>, timezone |-> "UTC"]
      [] OTHER  -> [id |-> id, custom_name |-> NOSTR, display_name |-> NOSTR,
                    telegram_username |-> <<"c">>, timezone |-> "UTC"]

-----------------------------------------------------------------------------
(* Text helpers *)

IsSpace(c) == c = " "

LowerChar(c) ==
    CASE c = "A" -> "a"
      [] c = "B" -> "b"
      [] c = "C" -> "c"
      [] OTHER   -> c

\* String.prototype.toLowerCase
ToLower(s) == [i \in 1..Len(s) |-> LowerChar(s[i])]

RECURSIVE TrimLeft(_)
TrimLeft(s) ==
    IF s # <<>> /\ IsSpace(Head(s)) THEN TrimLeft(Tail(s)) ELSE s

RECURSIVE TrimRight(_)
TrimRight(s) ==
    IF s # <<>> /\ IsSpace(s[Len(s)]) THEN TrimRight(SubSeq(s, 1, Len(s) - 1)) ELSE s

\* String.prototype.trim
Trim(s) == TrimRight(TrimLeft(s))

\* String.prototype.replace(ch, ''): the first occurrence only
RECURSIVE RemoveFirst(_, _)
RemoveFirst(s, ch) ==
    IF s = <<>> THEN <<>>
    ELSE IF Head(s) = ch THEN Tail(s)
    ELSE <<Head(s)>> \o RemoveFirst(Tail(s), ch)

\* comparison of two texts under the tables' utf8mb4_unicode_ci collation
CollationEq(a, b) == a # NOSTR /\ b # NOSTR /\ ToLower(a) = ToLower(b)

\* JS: x?.toLowerCase() === y.toLowerCase()
LowerEq(a, b) == a # NOSTR /\ ToLower(a) = ToLower(b)

SeqToSet(s) == {s[i] : i \in 1..Len(s)}

-----------------------------------------------------------------------------
(* UserModel / GroupModel reads *)

\* UserModel.findByName: SELECT ... WHERE custom_name = ? OR display_name = ?
\* OR telegram_username = ? LIMIT 1 (no two users of the table share a name)
FindByName(name) ==
    LET hit == {u \in Users :
                   \/ CollationEq(UserRow(u).custom_name, name)
                   \/ CollationEq(UserRow(u).display_name, name)
                   \/ CollationEq(UserRow(u).telegram_username, name)}
    IN IF hit = {} THEN NULL ELSE CHOOSE u \in hit : TRUE

\* GroupModel.getMembers(groupId).find(m => ... toLowerCase() === ...)
FindInGroup(name, mem) ==
    LET hit == {u \in mem :
                   \/ LowerEq(UserRow(u).custom_name, name)
                   \/ LowerEq(UserRow(u).display_name, name)
                   \/ LowerEq(UserRow(u).telegram_username, name)}
    IN IF hit = {} THEN NULL ELSE CHOOSE u \in hit : TRUE

-----------------------------------------------------------------------------
(* scopeParser *)

CleanName(name) == Trim(RemoveFirst(name, "@"))

\* the name looked up as written, '@' and blanks included
ResolveOneUncleaned(name, groupId, mem) ==
    LET user == FindByName(name)
    IN IF user = NULL /\ groupId # NULL THEN FindInGroup(name, mem) ELSE user

ResolveOne(name, groupId, mem) ==
    LET cleanName == CleanName(name)
        user == FindByName(cleanName)
    IN IF user = NULL /\ groupId # NULL THEN FindInGroup(cleanName, mem) ELSE user

RECURSIVE ResolveUserNames(_, _, _)
ResolveUserNames(userNames, groupId, mem) ==
    IF userNames = <<>> THEN <<>>
    ELSE LET user == ResolveOne(Head(userNames), groupId, mem)
             rest == ResolveUserNames(Tail(userNames), groupId, mem)
         IN IF user # NULL THEN <<user>> \o rest ELSE rest

NoError == [text |-> "", names |-> <<>>]

ScopeFail(text, names) ==
    [ok |-> FALSE, userId |-> NULL, groupId |-> NULL, assignedUserIds |-> <<>>,
     error |-> [text |-> text, names |-> names]]

ScopeOk(userId, groupId, assigned) ==
    [ok |-> TRUE, userId |-> userId, groupId |-> groupId,
     assignedUserIds |-> assigned, error |-> NoError]

MeAndXAssignees(currentUserId, otherUserIds) == <<currentUserId>> \o otherUserIds

\* the group context dropped
MeAndXNoGroup(groupId) == NULL

\* result.groupId = groupId: "keep group context if available"
MeAndXGroup(groupId) == groupId

\* the group check left out
GroupNeverMissing(groupId) == FALSE

\* all_of_us outside a group: if (!groupId)
MissingGroup(groupId) == groupId = NULL

ParseScope(scope, scopeUsers, currentUserId, groupId, mem) ==
    CASE scope = "me" -> ScopeOk(currentUserId, NULL, <<>>)
      [] scope = "all_of_us" ->
            IF MissingGroup(groupId)
            THEN ScopeFail("\"all_of_us\" scope requires a group context", <<>>)
            ELSE ScopeOk(NULL, groupId, <<>>)
      [] scope = "me_and_x" ->
            IF Len(scopeUsers) = 0
            THEN ScopeFail("\"me_and_x\" scope requires at least one other user", <<>>)
            ELSE LET otherUserIds == ResolveUserNames(scopeUsers, groupId, mem)
                 IN IF Len(otherUserIds) = 0
                    THEN ScopeFail("Could not find users: ", scopeUsers)
                    ELSE ScopeOk(NULL, MeAndXGroup(groupId),
                                 MeAndXAssignees(currentUserId, otherUserIds))
      [] OTHER -> ScopeFail("Unknown scope: ", <<>>)

-----------------------------------------------------------------------------
(* Time: instants are hours since the epoch, in UTC; a date is a day number *)

TzOffset(tz) == IF tz = "Asia/Jerusalem" THEN 2 ELSE 0

\* timezoneUtils.toUTC: a wall-clock time of the user's zone, as UTC
ToUTC(t, tz) == IF t = NULL THEN NULL ELSE t - TzOffset(tz)

\* SQL DATE(col) of a stored instant
DateOf(t) == (t \div 24) + 1

\* timezoneUtils.parseDate of a 'YYYY-MM-DD' text: new Date(text) is UTC
\* midnight of that day, formatted in the user's zone
ParseDate(date, tz) ==
    IF date = NULL THEN NULL
    ELSE DateOf((date - 1) * 24 + TzOffset(tz))

-----------------------------------------------------------------------------
(* Ordering of result sets *)

RECURSIVE LexLess(_, _)
LexLess(a, b) ==
    IF a = <<>> \/ b = <<>> THEN FALSE
    ELSE IF Head(a) # Head(b) THEN Head(a) < Head(b)
    ELSE LexLess(Tail(a), Tail(b))

\* rows of a set of [key, row] pairs by ascending key (keys are distinct:
\* each ends with the row id)
RECURSIVE OrderKeyed(_)
OrderKeyed(pairs) ==
    IF pairs = {} THEN <<>>
    ELSE LET first == CHOOSE p \in pairs :
                          \A o \in pairs \ {p} : LexLess(p.key, o.key)
         IN <<first.row>> \o OrderKeyed(pairs \ {first})

\* ENUM('low','medium','high') sorts by its index
PriorityIndex(p) ==
    CASE p = "low" -> 1
      [] p = "medium" -> 2
      [] OTHER -> 3

\* text columns of the model sort by their first character's rank
CharRank(c) ==
    CASE c = "a" -> 1 [] c = "b" -> 2 [] c = "c" -> 3 [] c = "d" -> 4
      [] c = "m" -> 5 [] c = "t" -> 6 [] OTHER -> 7

TextRank(s) == IF s = NOSTR THEN 0 ELSE CharRank(LowerChar(s[1]))

\* Array.prototype.filter((x, i, self) => i === self.findIndex(y => y.id === x.id))
\* the filter left out: every copy stays
KeepDuplicates(rows) == rows

RemoveDuplicates(rows) ==
    LET keep == SelectSeq([i \in 1..Len(rows) |-> i],
                          LAMBDA i : \A j \in 1..(i - 1) : rows[j].id # rows[i].id)
    IN [k \in 1..Len(keep) |-> rows[keep[k]]]

-----------------------------------------------------------------------------
(* The database and the handlers' results *)

\* the three entity tables with their AUTO_INCREMENT counters
Db(t, s, e, ts, ss, es) ==
    [todos |-> t, shopping |-> s, events |-> e,
     todoSeq |-> ts, shopSeq |-> ss, eventSeq |-> es, down |-> {}]

\* CONSTRAINT chk_*_scope CHECK ((user_id IS NOT NULL) OR (group_id IS NOT NULL))
ChkScope(row) == row.user_id # NULL \/ row.group_id # NULL

\* whether the server accepts the INSERT of the row
InsertAccepted(row, chk) == chk => ChkScope(row)

\* the rows a combined query message lists, by kind
NoListed == [todos |-> <<>>, items |-> <<>>, events |-> <<>>]

\* a response text, with the names it quotes and the rows it lists
Msg(text) == [text |-> text, names |-> <<>>, listed |-> NoListed]

\* error.message of a scope error
ScopeErrorMsg(error) == [text |-> error.text, names |-> error.names, listed |-> NoListed]

\* a thrown Error, as actionRouter.route's catch block reports it
Thrown(message, db) ==
    [res |-> [success |-> FALSE, message |-> message, rows |-> <<>>], db |-> db]

Done(success, text, rows, db) ==
    [res |-> [success |-> success, message |-> Msg(text), rows |-> rows], db |-> db]

\* scopeData === null
NoScopeData ==
    [ok |-> TRUE, userId |-> NULL, groupId |-> NULL, assignedUserIds |-> <<>>,
     error |-> NoError]

\* a text parameter the classifier set to null
JSNULL == <<"null">>

\* !value of a text parameter (undefined, null or '')
Missing(s) == s = UNDEF \/ s = JSNULL \/ s = NOSTR

\* a parameter value as the column stores it
ToColumn(s) == IF s = JSNULL THEN NOSTR ELSE s

-----------------------------------------------------------------------------
(* TodoModel *)

TodoRow(id, userId, groupId, assigned, task, priority, deadline, createdBy) ==
    [id |-> id, user_id |-> userId, group_id |-> groupId,
     assigned_user_ids |-> assigned, task |-> task, priority |-> priority,
     deadline |-> deadline, completed |-> FALSE, created_by |-> createdBy]

TodoFindById(db, id) == {r \in db.todos : r.id = id}

\* ... AND completed = FALSE ... AND DATE(deadline) = ?
TodoFilter(r, includeCompleted, date) ==
    /\ includeCompleted \/ ~r.completed
    /\ date # NULL => (r.deadline # NULL /\ DateOf(r.deadline) = date)

\* ORDER BY deadline ASC (NULL first), priority DESC, created_at DESC
TodoOrder(rows) ==
    OrderKeyed({[key |-> <<r.deadline, 0 - PriorityIndex(r.priority), 0 - r.id>>,
                 row |-> r] : r \in rows})

TodoFindByUser(db, userId, includeCompleted, date) ==
    TodoOrder({r \in db.todos :
                  r.user_id = userId /\ TodoFilter(r, includeCompleted, date)})

TodoFindByGroup(db, groupId, includeCompleted, date) ==
    TodoOrder({r \in db.todos :
                  r.group_id = groupId /\ TodoFilter(r, includeCompleted, date)})

\* WHERE JSON_CONTAINS(assigned_user_ids, CAST(? AS JSON))
TodoFindByAssignedUser(db, userId, includeCompleted, date) ==
    TodoOrder({r \in db.todos :
                  /\ userId \in SeqToSet(r.assigned_user_ids)
                  /\ TodoFilter(r, includeCompleted, date)})

\* TodoModel.update: the UPDATE statement with the fields present in updates
\* UPDATE todos SET over every column: a column the updates leave out is set
\* to NULL
TodoApplyResetting(r, updates) ==
    [r EXCEPT !.task = IF updates.task # UNDEF THEN updates.task ELSE @,
              !.priority = IF updates.priority # "" THEN updates.priority ELSE @,
              !.deadline = IF updates.hasDeadline THEN updates.deadline ELSE NULL,
              !.completed = IF updates.hasCompleted THEN updates.completed ELSE @]

TodoApply(r, updates) ==
    [r EXCEPT !.task = IF updates.task # UNDEF THEN updates.task ELSE @,
              !.priority = IF updates.priority # "" THEN updates.priority ELSE @,
              !.deadline = IF updates.hasDeadline THEN updates.deadline ELSE @,
              !.completed = IF updates.hasCompleted THEN updates.completed ELSE @]

TodoUpdate(db, id, updates) ==
    [db EXCEPT !.todos = {IF r.id = id THEN TodoApply(r, updates) ELSE r : r \in @}]

\* a delete that marks the row instead of removing it
TodoDeleteKeepsRow(db, id) ==
    [db EXCEPT !.todos = {IF r.id = id THEN [r EXCEPT !.completed = TRUE] ELSE r : r \in @}]

TodoDelete(db, id) == [db EXCEPT !.todos = {r \in @ : r.id # id}]

NoTodoUpdates ==
    [task |-> UNDEF, priority |-> "", hasDeadline |-> FALSE, deadline |-> NULL,
     hasCompleted |-> FALSE, completed |-> FALSE]

-----------------------------------------------------------------------------
(* todoHandler *)

TodoCreateOwner(scopeData) == scopeData.userId

\* create without the check of the task text
TodoCreateUnvalidated(parameters, user, scopeData, db, chk) ==
    LET row == TodoRow(db.todoSeq, TodoCreateOwner(scopeData), scopeData.groupId,
                       scopeData.assignedUserIds,
                       IF Missing(parameters.task) THEN NOSTR ELSE parameters.task,
                       IF parameters.priority = "" THEN "medium" ELSE parameters.priority,
                       ToUTC(parameters.deadline, UserRow(user).timezone), user)
    IN IF ~InsertAccepted(row, chk)
       THEN Thrown(Msg("Check constraint 'chk_todo_scope' is violated."), db)
       ELSE Done(TRUE, "todo created", <<row>>,
                 [db EXCEPT !.todos = @ \cup {row}, !.todoSeq = @ + 1])

TodoCreate(parameters, user, scopeData, db, chk) ==
    IF Missing(parameters.task) THEN Thrown(Msg("Task is required"), db)
    ELSE LET deadline == ToUTC(parameters.deadline, UserRow(user).timezone)
             row == TodoRow(db.todoSeq, TodoCreateOwner(scopeData), scopeData.groupId,
                            scopeData.assignedUserIds, parameters.task,
                            IF parameters.priority = "" THEN "medium"
                            ELSE parameters.priority,
                            deadline, user)
         IN IF ~InsertAccepted(row, chk)
            THEN Thrown(Msg("Check constraint 'chk_todo_scope' is violated."), db)
            ELSE Done(TRUE, "todo created", <<row>>,
                      [db EXCEPT !.todos = @ \cup {row}, !.todoSeq = @ + 1])

\* the comparator without its two null checks: a missing deadline counts as
\* the earliest time
TodoBeforeNullFirst(a, b) ==
    IF a.deadline # b.deadline THEN a.deadline < b.deadline
    ELSE PriorityIndex(b.priority) - PriorityIndex(a.priority) < 0

\* the comparator of uniqueTodos.sort: a sorts before b
TodoBefore(a, b) ==
    IF a.deadline # NULL /\ b.deadline = NULL THEN TRUE
    ELSE IF a.deadline = NULL /\ b.deadline # NULL THEN FALSE
    ELSE IF a.deadline # NULL /\ b.deadline # NULL THEN a.deadline < b.deadline
    ELSE PriorityIndex(b.priority) - PriorityIndex(a.priority) < 0

RECURSIVE TodoInsertSorted(_, _)
TodoInsertSorted(sorted, x) ==
    IF sorted = <<>> THEN <<x>>
    ELSE IF TodoBefore(x, Head(sorted)) THEN <<x>> \o sorted
    ELSE <<Head(sorted)>> \o TodoInsertSorted(Tail(sorted), x)

\* Array.prototype.sort is stable
RECURSIVE TodoSort(_)
TodoSort(rows) ==
    IF rows = <<>> THEN <<>>
    ELSE TodoInsertSorted(TodoSort(SubSeq(rows, 1, Len(rows) - 1)), rows[Len(rows)])

\* the rows todoHandler.list pushes, before the duplicates are removed
TodoListCollect(user, group, scopeData, date, db) ==
    LET personal == IF scopeData = NoScopeData \/ scopeData.userId = user
                    THEN TodoFindByUser(db, user, FALSE, date) ELSE <<>>
        inGroup == /\ group # NULL /\ scopeData # NoScopeData
                   /\ (scopeData.groupId = group \/ scopeData.assignedUserIds # <<>>)
        ofGroup == IF inGroup /\ scopeData.groupId = group
                   THEN TodoFindByGroup(db, group, FALSE, date) ELSE <<>>
        assigned == IF inGroup /\ user \in SeqToSet(scopeData.assignedUserIds)
                    THEN TodoFindByAssignedUser(db, user, FALSE, date) ELSE <<>>
    IN personal \o ofGroup \o assigned

TodoUnique(rows) == RemoveDuplicates(rows)

TodoList(user, group, scopeData, parameters, db) ==
    LET date == ParseDate(parameters.date, UserRow(user).timezone)
        uniqueTodos == TodoSort(TodoUnique(TodoListCollect(user, group, scopeData, date, db)))
    IN IF Len(uniqueTodos) = 0 THEN Done(TRUE, "no todos found", <<>>, db)
       ELSE Done(TRUE, "todos", uniqueTodos, db)

\* todoHandler.update: the updates object built from the parameters
TodoUpdatesOf(parameters, user) ==
    [NoTodoUpdates EXCEPT
       !.task = IF Missing(parameters.task) THEN UNDEF ELSE parameters.task,
       !.priority = parameters.priority,
       !.hasDeadline = parameters.deadline # NULL,
       !.deadline = ToUTC(parameters.deadline, UserRow(user).timezone)]

TodoUpdateHandler(parameters, user, db) ==
    IF parameters.id = NULL THEN Thrown(Msg("Todo ID is required for update"), db)
    ELSE LET updates == TodoUpdatesOf(parameters, user)
             after == TodoUpdate(db, parameters.id, updates)
         IN IF TodoFindById(after, parameters.id) = {}
            THEN Thrown(Msg("Todo not found"), after)
            ELSE Done(TRUE, "todo updated",
                      <<CHOOSE r \in TodoFindById(after, parameters.id) : TRUE>>, after)

TodoMarkComplete(parameters, db) ==
    IF parameters.id = NULL THEN Thrown(Msg("Todo ID is required"), db)
    ELSE LET after == TodoUpdate(db, parameters.id,
                                 [NoTodoUpdates EXCEPT !.hasCompleted = TRUE,
                                                       !.completed = TRUE])
         IN IF TodoFindById(after, parameters.id) = {}
            THEN Thrown(Msg("Todo not found"), after)
            ELSE Done(TRUE, "todo completed",
                      <<CHOOSE r \in TodoFindById(after, parameters.id) : TRUE>>, after)

\* the id check left out
TodoDeleteUnchecked(parameters, db) ==
    IF TodoFindById(db, parameters.id) = {} THEN Thrown(Msg("Todo not found"), db)
    ELSE Done(TRUE, "todo deleted", <<>>, TodoDelete(db, parameters.id))

TodoDeleteHandler(parameters, db) ==
    IF parameters.id = NULL THEN Thrown(Msg("Todo ID is required"), db)
    ELSE IF TodoFindById(db, parameters.id) = {} THEN Thrown(Msg("Todo not found"), db)
    ELSE Done(TRUE, "todo deleted", <<>>, TodoDelete(db, parameters.id))

\* the rows todoHandler.query pushes, before the duplicates are removed
TodoQueryCollect(user, group, date, db) ==
    TodoFindByUser(db, user, FALSE, date)
    \o (IF group # NULL
        THEN TodoFindByGroup(db, group, FALSE, date)
             \o TodoFindByAssignedUser(db, user, FALSE, date)
        ELSE <<>>)

TodoQuery(parameters, user, group, db) ==
    LET date == ParseDate(parameters.date, UserRow(user).timezone)
        uniqueTodos == TodoSort(TodoUnique(TodoQueryCollect(user, group, date, db)))
    IN IF Len(uniqueTodos) = 0 THEN Done(TRUE, "no todos found", <<>>, db)
       ELSE Done(TRUE, "todos", uniqueTodos, db)

TodoHandle(action, user, group, scopeData, db, chk) ==
    CASE action.operation = "create" -> TodoCreate(action.parameters, user, scopeData, db, chk)
      [] action.operation = "list" -> TodoList(user, group, scopeData, action.parameters, db)
      [] action.operation = "update" -> TodoUpdateHandler(action.parameters, user, db)
      [] action.operation = "mark_complete" -> TodoMarkComplete(action.parameters, db)
      [] action.operation = "delete" -> TodoDeleteHandler(action.parameters, db)
      [] OTHER -> Thrown(Msg("Unknown todo operation"), db)

-----------------------------------------------------------------------------
(* ShoppingItemModel *)

ShoppingRow(id, userId, groupId, assigned, item, category, amount, createdBy) ==
    [id |-> id, user_id |-> userId, group_id |-> groupId,
     assigned_user_ids |-> assigned, item |-> item, category |-> category,
     amount |-> amount, purchased |-> FALSE, purchased_by |-> NULL,
     created_by |-> createdBy]

ShoppingFindById(db, id) == {r \in db.shopping : r.id = id}

\* ... AND purchased = FALSE ... AND category = ?
ShoppingFilter(r, includePurchased, category) ==
    /\ includePurchased \/ ~r.purchased
    /\ ~Missing(category) => CollationEq(r.category, category)

\* ORDER BY category, created_at DESC
ShoppingOrder(rows) ==
    OrderKeyed({[key |-> <<TextRank(r.category), 0 - r.id>>, row |-> r] : r \in rows})

ShoppingFindByUser(db, userId, includePurchased, category) ==
    ShoppingOrder({r \in db.shopping :
                      r.user_id = userId /\ ShoppingFilter(r, includePurchased, category)})

ShoppingFindByGroup(db, groupId, includePurchased, category) ==
    ShoppingOrder({r \in db.shopping :
                      r.group_id = groupId /\ ShoppingFilter(r, includePurchased, category)})

ShoppingFindByAssignedUser(db, userId, includePurchased, category) ==
    ShoppingOrder({r \in db.shopping :
                      /\ userId \in SeqToSet(r.assigned_user_ids)
                      /\ ShoppingFilter(r, includePurchased, category)})

\* UPDATE shopping_items SET purchased = TRUE, purchased_by = ? WHERE id = ?
ShoppingMarkPurchased(db, id, purchasedBy) ==
    [db EXCEPT !.shopping =
        {IF r.id = id THEN [r EXCEPT !.purchased = TRUE, !.purchased_by = purchasedBy]
         ELSE r : r \in @}]

ShoppingApply(r, updates) ==
    [r EXCEPT !.item = IF updates.item # UNDEF THEN updates.item ELSE @,
              !.category = IF updates.category # UNDEF THEN ToColumn(updates.category) ELSE @,
              !.amount = IF updates.amount # UNDEF THEN ToColumn(updates.amount) ELSE @,
              !.purchased = IF updates.hasPurchased THEN updates.purchased ELSE @,
              !.purchased_by = IF updates.hasPurchased THEN updates.purchasedBy ELSE @]

ShoppingUpdate(db, id, updates) ==
    [db EXCEPT !.shopping = {IF r.id = id THEN ShoppingApply(r, updates) ELSE r : r \in @}]

ShoppingDelete(db, id) == [db EXCEPT !.shopping = {r \in @ : r.id # id}]

NoShoppingUpdates ==
    [item |-> UNDEF, category |-> UNDEF, amount |-> UNDEF,
     hasPurchased |-> FALSE, purchased |-> FALSE, purchasedBy |-> NULL]

\* hay LIKE '%needle%'
Contains(hay, needle) ==
    \E i \in 1..(Len(hay) - Len(needle) + 1) :
        ToLower(SubSeq(hay, i, i + Len(needle) - 1)) = ToLower(needle)

\* position of an id in the order in which the server returns unordered rows
PosIn(ord, id) == CHOOSE i \in 1..Len(ord) : ord[i] = id

\* ShoppingItemModel.searchByItemName: no ORDER BY, rows come in the order ord
ShoppingSearchByItemName(db, itemName, userId, groupId, ord) ==
    OrderKeyed({[key |-> <<PosIn(ord, r.id)>>, row |-> r] :
                r \in {x \in db.shopping :
                          /\ Contains(x.item, itemName) /\ ~x.purchased
                          /\ IF userId # NULL THEN x.user_id = userId
                             ELSE IF groupId # NULL THEN x.group_id = groupId
                             ELSE TRUE}})

-----------------------------------------------------------------------------
(* shoppingHandler *)

\* parameters.x && parameters.x.trim() ? parameters.x.trim() : null
NormalizeText(s) == IF Missing(s) \/ Trim(s) = <<>> THEN NOSTR ELSE Trim(s)

ShoppingCreate(parameters, user, scopeData, db, chk) ==
    IF Missing(parameters.item) THEN Thrown(Msg("Item is required"), db)
    ELSE LET row == ShoppingRow(db.shopSeq, scopeData.userId, scopeData.groupId,
                                scopeData.assignedUserIds, parameters.item,
                                NormalizeText(parameters.category),
                                NormalizeText(parameters.amount), user)
         IN IF ~InsertAccepted(row, chk)
            THEN Thrown(Msg("Check constraint 'chk_shopping_scope' is violated."), db)
            ELSE Done(TRUE, "item added", <<row>>,
                      [db EXCEPT !.shopping = @ \cup {row}, !.shopSeq = @ + 1])

ShoppingListCollect(user, group, scopeData, category, db) ==
    LET personal == IF scopeData = NoScopeData \/ scopeData.userId = user
                    THEN ShoppingFindByUser(db, user, FALSE, category) ELSE <<>>
        inGroup == /\ group # NULL /\ scopeData # NoScopeData
                   /\ (scopeData.groupId = group \/ scopeData.assignedUserIds # <<>>)
        ofGroup == IF inGroup /\ scopeData.groupId = group
                   THEN ShoppingFindByGroup(db, group, FALSE, category) ELSE <<>>
        assigned == IF inGroup /\ user \in SeqToSet(scopeData.assignedUserIds)
                    THEN ShoppingFindByAssignedUser(db, user, FALSE, category) ELSE <<>>
    IN personal \o ofGroup \o assigned

ShoppingUnique(rows) == RemoveDuplicates(rows)

ShoppingList(user, group, scopeData, parameters, db) ==
    LET uniqueItems == ShoppingUnique(
                           ShoppingListCollect(user, group, scopeData,
                                               parameters.category, db))
    IN IF Len(uniqueItems) = 0 THEN Done(TRUE, "shopping list is empty", <<>>, db)
       ELSE Done(TRUE, "shopping list", uniqueItems, db)

RECURSIVE MarkEach(_, _, _)
MarkEach(db, rows, user) ==
    IF rows = <<>> THEN db
    ELSE MarkEach(ShoppingMarkPurchased(db, Head(rows).id, user), Tail(rows), user)

\* the loops over item names: the first match of each name is marked
RECURSIVE MarkByNames(_, _, _, _, _)
MarkByNames(db, itemNames, user, group, ord) ==
    IF itemNames = <<>> THEN [db |-> db, rows |-> <<>>]
    ELSE LET items == ShoppingSearchByItemName(db, Head(itemNames),
                                               IF group # NULL THEN NULL ELSE user,
                                               group, ord)
             marked == IF Len(items) > 0
                       THEN ShoppingMarkPurchased(db, items[1].id, user) ELSE db
             rest == MarkByNames(marked, Tail(itemNames), user, group, ord)
         IN [db |-> rest.db,
             rows |-> (IF Len(items) > 0 THEN <<items[1]>> ELSE <<>>) \o rest.rows]

\* item.split(',').map(name => name.trim()).filter(name => name.length > 0)
RECURSIVE SplitComma(_, _)
SplitComma(s, cur) ==
    IF s = <<>> THEN (IF Trim(cur) = <<>> THEN <<>> ELSE <<Trim(cur)>>)
    ELSE IF Head(s) = ","
         THEN (IF Trim(cur) = <<>> THEN <<>> ELSE <<Trim(cur)>>) \o SplitComma(Tail(s), <<>>)
         ELSE SplitComma(Tail(s), cur \o <<Head(s)>>)

\* parameters.items of a message that names no array
NOITEMS == <<UNDEF>>

\* the "mark all" branch is taken
MarkAllCase(parameters) ==
    \/ parameters.item = JSNULL
    \/ (parameters.item = UNDEF /\ parameters.items = NOITEMS /\ parameters.id = NULL)

ShoppingMarkPurchasedHandler(parameters, user, group, db, ord) ==
    IF MarkAllCase(parameters)
    THEN LET allItems == IF group # NULL THEN ShoppingFindByGroup(db, group, FALSE, UNDEF)
                         ELSE ShoppingFindByUser(db, user, FALSE, UNDEF)
         IN IF Len(allItems) = 0 THEN Done(TRUE, "no items to mark", <<>>, db)
            ELSE Done(TRUE, "items marked purchased", allItems, MarkEach(db, allItems, user))
    ELSE IF parameters.item # UNDEF /\ parameters.item # NOSTR
    THEN LET out == MarkByNames(db, SplitComma(parameters.item, <<>>), user, group, ord)
         IN IF Len(out.rows) = 0 THEN Done(FALSE, "no matching items", <<>>, out.db)
            ELSE Done(TRUE, "items marked purchased", out.rows, out.db)
    ELSE IF parameters.items # NOITEMS
    THEN LET out == MarkByNames(db, parameters.items, user, group, ord)
         IN IF Len(out.rows) = 0 THEN Done(FALSE, "no matching items", <<>>, out.db)
            ELSE Done(TRUE, "items marked purchased", out.rows, out.db)
    ELSE IF parameters.id # NULL
    THEN LET after == ShoppingUpdate(db, parameters.id,
                                     [NoShoppingUpdates EXCEPT !.hasPurchased = TRUE,
                                                               !.purchased = TRUE,
                                                               !.purchasedBy = user])
         IN IF ShoppingFindById(after, parameters.id) = {}
            THEN Thrown(Msg("Item not found"), after)
            ELSE Done(TRUE, "item marked purchased",
                      <<CHOOSE r \in ShoppingFindById(after, parameters.id) : TRUE>>, after)
    ELSE Thrown(Msg("Item ID, item name, items array, or null (for all) is required"), db)

ShoppingUpdateHandler(parameters, db) ==
    IF parameters.id = NULL THEN Thrown(Msg("Item ID is required for update"), db)
    ELSE LET updates ==
                 [NoShoppingUpdates EXCEPT
                    !.item = IF Missing(parameters.item) THEN UNDEF ELSE parameters.item,
                    !.category = parameters.category,
                    !.amount = parameters.amount]
             after == ShoppingUpdate(db, parameters.id, updates)
         IN IF ShoppingFindById(after, parameters.id) = {}
            THEN Thrown(Msg("Item not found"), after)
            ELSE Done(TRUE, "item updated",
                      <<CHOOSE r \in ShoppingFindById(after, parameters.id) : TRUE>>, after)

ShoppingDeleteHandler(parameters, db) ==
    IF parameters.id = NULL THEN Thrown(Msg("Item ID is required"), db)
    ELSE IF ShoppingFindById(db, parameters.id) = {} THEN Thrown(Msg("Item not found"), db)
    ELSE Done(TRUE, "item deleted", <<>>, ShoppingDelete(db, parameters.id))

ShoppingQueryCollect(user, group, category, db) ==
    ShoppingFindByUser(db, user, FALSE, category)
    \o (IF group # NULL
        THEN ShoppingFindByGroup(db, group, FALSE, category)
             \o ShoppingFindByAssignedUser(db, user, FALSE, category)
        ELSE <<>>)

ShoppingQuery(parameters, user, group, db) ==
    LET uniqueItems == ShoppingUnique(
                           ShoppingQueryCollect(user, group, parameters.category, db))
    IN IF Len(uniqueItems) = 0 THEN Done(TRUE, "shopping list is empty", <<>>, db)
       ELSE Done(TRUE, "shopping list", uniqueItems, db)

ShoppingHandle(action, user, group, scopeData, db, chk, ord) ==
    CASE action.operation = "create" ->
            ShoppingCreate(action.parameters, user, scopeData, db, chk)
      [] action.operation = "list" ->
            ShoppingList(user, group, scopeData, action.parameters, db)
      [] action.operation = "mark_purchased" ->
            ShoppingMarkPurchasedHandler(action.parameters, user, group, db, ord)
      [] action.operation = "update" -> ShoppingUpdateHandler(action.parameters, db)
      [] action.operation = "delete" -> ShoppingDeleteHandler(action.parameters, db)
      [] OTHER -> Thrown(Msg("Unknown shopping operation"), db)

-----------------------------------------------------------------------------
(* CalendarEventModel *)

\* a time parameter missing from the classifier's JSON
UNDEFT == -1

EventRow(id, userId, groupId, assigned, title, description, startTime, endTime, createdBy) ==
    [id |-> id, user_id |-> userId, group_id |-> groupId,
     assigned_user_ids |-> assigned, title |-> title, description |-> description,
     start_time |-> startTime, end_time |-> endTime, created_by |-> createdBy]

EventFindById(db, id) == {r \in db.events : r.id = id}

\* ... AND DATE(start_time) = ?
EventFilter(r, date) == date # NULL => DateOf(r.start_time) = date

\* ORDER BY start_time ASC; rows of equal start_time come in the order ord
EventOrder(rows, ord) ==
    OrderKeyed({[key |-> <<r.start_time, PosIn(ord, r.id)>>, row |-> r] : r \in rows})

EventFindByUser(db, userId, date, ord) ==
    EventOrder({r \in db.events : r.user_id = userId /\ EventFilter(r, date)}, ord)

EventFindByGroup(db, groupId, date, ord) ==
    EventOrder({r \in db.events : r.group_id = groupId /\ EventFilter(r, date)}, ord)

EventFindByAssignedUser(db, userId, date, ord) ==
    EventOrder({r \in db.events :
                   userId \in SeqToSet(r.assigned_user_ids) /\ EventFilter(r, date)}, ord)

EventApply(r, updates) ==
    [r EXCEPT !.title = IF updates.title # UNDEF THEN updates.title ELSE @,
              !.description = IF updates.description # UNDEF
                              THEN ToColumn(updates.description) ELSE @,
              !.start_time = IF updates.startTime # UNDEFT THEN updates.startTime ELSE @,
              !.end_time = IF updates.endTime # UNDEFT THEN updates.endTime ELSE @]

EventUpdate(db, id, updates) ==
    [db EXCEPT !.events = {IF r.id = id THEN EventApply(r, updates) ELSE r : r \in @}]

EventDelete(db, id) == [db EXCEPT !.events = {r \in @ : r.id # id}]

-----------------------------------------------------------------------------
(* calendarHandler *)

\* !value of a time parameter
NoTime(t) == t = NULL \/ t = UNDEFT

CalendarCreate(parameters, user, scopeData, db, chk) ==
    IF Missing(parameters.title) THEN Thrown(Msg("Title is required"), db)
    ELSE IF NoTime(parameters.start_time) THEN Thrown(Msg("Start time is required"), db)
    ELSE LET tz == UserRow(user).timezone
             row == EventRow(db.eventSeq, scopeData.userId, scopeData.groupId,
                             scopeData.assignedUserIds, parameters.title,
                             IF Missing(parameters.description) THEN NOSTR
                             ELSE parameters.description,
                             ToUTC(parameters.start_time, tz),
                             IF NoTime(parameters.end_time) THEN NULL
                             ELSE ToUTC(parameters.end_time, tz),
                             user)
         IN IF ~InsertAccepted(row, chk)
            THEN Thrown(Msg("Check constraint 'chk_calendar_scope' is violated."), db)
            ELSE Done(TRUE, "event created", <<row>>,
                      [db EXCEPT !.events = @ \cup {row}, !.eventSeq = @ + 1])

EventBefore(a, b) == a.start_time < b.start_time

RECURSIVE EventInsertSorted(_, _)
EventInsertSorted(sorted, x) ==
    IF sorted = <<>> THEN <<x>>
    ELSE IF EventBefore(x, Head(sorted)) THEN <<x>> \o sorted
    ELSE <<Head(sorted)>> \o EventInsertSorted(Tail(sorted), x)

RECURSIVE EventSort(_)
EventSort(rows) ==
    IF rows = <<>> THEN <<>>
    ELSE EventInsertSorted(EventSort(SubSeq(rows, 1, Len(rows) - 1)), rows[Len(rows)])

CalendarListCollect(user, group, scopeData, date, db, ord) ==
    LET personal == IF scopeData = NoScopeData \/ scopeData.userId = user
                    THEN EventFindByUser(db, user, date, ord) ELSE <<>>
        inGroup == /\ group # NULL /\ scopeData # NoScopeData
                   /\ (scopeData.groupId = group \/ scopeData.assignedUserIds # <<>>)
        ofGroup == IF inGroup /\ scopeData.groupId = group
                   THEN EventFindByGroup(db, group, date, ord) ELSE <<>>
        assigned == IF inGroup /\ user \in SeqToSet(scopeData.assignedUserIds)
                    THEN EventFindByAssignedUser(db, user, date, ord) ELSE <<>>
    IN personal \o ofGroup \o assigned

EventUnique(rows) == RemoveDuplicates(rows)

CalendarList(user, group, scopeData, parameters, db, ord) ==
    LET date == ParseDate(parameters.date, UserRow(user).timezone)
        uniqueEvents == EventSort(EventUnique(
                            CalendarListCollect(user, group, scopeData, date, db, ord)))
    IN IF Len(uniqueEvents) = 0 THEN Done(TRUE, "no events found", <<>>, db)
       ELSE Done(TRUE, "events", uniqueEvents, db)

CalendarUpdateHandler(parameters, user, db) ==
    IF parameters.id = NULL THEN Thrown(Msg("Event ID is required for update"), db)
    ELSE LET tz == UserRow(user).timezone
             updates ==
                 [title |-> IF Missing(parameters.title) THEN UNDEF ELSE parameters.title,
                  description |-> parameters.description,
                  startTime |-> IF NoTime(parameters.start_time) THEN UNDEFT
                                ELSE ToUTC(parameters.start_time, tz),
                  endTime |-> IF parameters.end_time = UNDEFT THEN UNDEFT
                              ELSE ToUTC(parameters.end_time, tz)]
             after == EventUpdate(db, parameters.id, updates)
         IN IF EventFindById(after, parameters.id) = {}
            THEN Thrown(Msg("Event not found"), after)
            ELSE Done(TRUE, "event updated",
                      <<CHOOSE r \in EventFindById(after, parameters.id) : TRUE>>, after)

CalendarDeleteHandler(parameters, db) ==
    IF parameters.id = NULL THEN Thrown(Msg("Event ID is required"), db)
    ELSE IF EventFindById(db, parameters.id) = {} THEN Thrown(Msg("Event not found"), db)
    ELSE Done(TRUE, "event deleted", <<>>, EventDelete(db, parameters.id))

CalendarQueryCollect(user, group, date, db, ord) ==
    EventFindByUser(db, user, date, ord)
    \o (IF group # NULL
        THEN EventFindByGroup(db, group, date, ord)
             \o EventFindByAssignedUser(db, user, date, ord)
        ELSE <<>>)

\* the messages of the model name a date or nothing: no startDate / endDate
CalendarQuery(parameters, user, group, db, ord) ==
    LET date == ParseDate(parameters.date, UserRow(user).timezone)
        uniqueEvents == EventSort(EventUnique(CalendarQueryCollect(user, group, date, db, ord)))
    IN IF Len(uniqueEvents) = 0 THEN Done(TRUE, "no events found", <<>>, db)
       ELSE Done(TRUE, "events", uniqueEvents, db)

CalendarHandle(action, user, group, scopeData, db, chk, ord) ==
    CASE action.operation = "create" ->
            CalendarCreate(action.parameters, user, scopeData, db, chk)
      [] action.operation = "list" ->
            CalendarList(user, group, scopeData, action.parameters, db, ord)
      [] action.operation = "update" -> CalendarUpdateHandler(action.parameters, user, db)
      [] action.operation = "delete" -> CalendarDeleteHandler(action.parameters, db)
      [] OTHER -> Thrown(Msg("Unknown calendar operation"), db)

-----------------------------------------------------------------------------
(* queryHandler *)

\* queryType 'all': the three queries, each failure caught, the non-empty
\* sections joined into one message
\* a statement on a table of db.down is rejected (the connection is lost, the
\* table is locked, ...): pool.execute throws and so does the handler's query
StoreError == Msg("store error")

TodoQueryCall(parameters, user, group, db) ==
    IF "todos" \in db.down THEN Thrown(StoreError, db)
    ELSE TodoQuery(parameters, user, group, db)

ShoppingQueryCall(parameters, user, group, db) ==
    IF "shopping_items" \in db.down THEN Thrown(StoreError, db)
    ELSE ShoppingQuery(parameters, user, group, db)

CalendarQueryCall(parameters, user, group, db, ord) ==
    IF "calendar_events" \in db.down THEN Thrown(StoreError, db)
    ELSE CalendarQuery(parameters, user, group, db, ord)

\* .catch(() => ({ success: true, message: '', ... [] }))
Caught(out) ==
    IF out.res.success THEN out.res
    ELSE [success |-> TRUE, message |-> Msg(""), rows |-> <<>>]

QueryAll(parameters, user, group, db, ord) ==
    LET todoResult == Caught(TodoQueryCall(parameters, user, group, db))
        shoppingResult == Caught(ShoppingQueryCall(parameters, user, group, db))
        calendarResult == Caught(CalendarQueryCall(parameters, user, group, db, ord))
        listed == [todos |-> todoResult.rows, items |-> shoppingResult.rows,
                   events |-> calendarResult.rows]
    IN IF listed = NoListed THEN Done(TRUE, "no items found", <<>>, db)
       ELSE [res |-> [success |-> TRUE,
                      message |-> [text |-> "combined", names |-> <<>>, listed |-> listed],
                      rows |-> <<>>],
             db |-> db]

QueryHandle(action, user, group, db, ord) ==
    LET queryType == IF action.parameters.queryType = "" THEN "all"
                     ELSE action.parameters.queryType
    IN IF action.operation # "list" THEN Thrown(Msg("Unknown query operation"), db)
       ELSE CASE queryType = "todos" -> TodoQueryCall(action.parameters, user, group, db)
              [] queryType = "shopping" ->
                    ShoppingQueryCall(action.parameters, user, group, db)
              [] queryType = "calendar" ->
                    CalendarQueryCall(action.parameters, user, group, db, ord)
              [] queryType = "all" -> QueryAll(action.parameters, user, group, db, ord)
              [] OTHER -> Thrown(Msg("Unknown query type"), db)

-----------------------------------------------------------------------------
(* actionRouter *)

\* whether route calls scopeParser.parseScope for the action
RouteParsesScope(action) == action.scope # ""

\* the messages of the model carry no 'user' action (set_name): the users
\* table stays as it is
Route(action, user, group, db, chk, mem, ord) ==
    IF action.action = "query" THEN QueryHandle(action, user, group, db, ord)
    ELSE LET parsed == IF RouteParsesScope(action)
                       THEN ParseScope(action.scope, action.scope_users, user, group, mem)
                       ELSE NoScopeData
         IN IF ~parsed.ok THEN Thrown(ScopeErrorMsg(parsed.error), db)
            ELSE CASE action.action = "todo" ->
                        TodoHandle(action, user, group, parsed, db, chk)
                   [] action.action = "shopping" ->
                        ShoppingHandle(action, user, group, parsed, db, chk, ord)
                   [] action.action = "calendar" ->
                        CalendarHandle(action, user, group, parsed, db, chk, ord)
                   [] OTHER -> Thrown(Msg("Unknown action"), db)

-----------------------------------------------------------------------------
(* The message handler: handleMessage, then actionRouter.route *)

CurrentDb == Db(todos, shopping, events, todoSeq, shopSeq, eventSeq)

\* rows inserted so far, all tables together
Inserted(db) == (db.todoSeq - 1) + (db.shopSeq - 1) + (db.eventSeq - 1)

\* the orders in which the server may return rows that no ORDER BY separates
RowOrders ==
    {ord \in [1..MaxRows -> 1..MaxRows] : \A i, j \in 1..MaxRows : ord[i] = ord[j] => i = j}

\* ensureGroupMember: isMember, else INSERT INTO group_members
EnsureGroupMember(mem, group, user) == IF group # NULL THEN mem \cup {user} ELSE mem

\* no message is being handled: the classifier has not been called
NoCall == [calls |-> 0, outcome |-> "", routed |-> FALSE]

\* parseMessage requests one completion; routed: actionRouter.route was called
Called(outcome, routed) == [calls |-> 1, outcome |-> outcome, routed |-> routed]

\* nothing fails: both audit writes and every statement on the entity tables
NoFaults == [messageAudit |-> FALSE, llmAudit |-> FALSE, store |-> {}]

NoAudit == [message |-> FALSE, llm |-> FALSE]

\* auditService.logMessage under a failing write, were the error rethrown
LogMessageThrowing(fails) == [threw |-> fails, id |-> IF fails THEN NULL ELSE 1]

\* auditService.logMessage: the id of the message_audit row, null when the
\* write fails (the error is caught and logged)
LogMessage(fails) == [threw |-> FALSE, id |-> IF fails THEN NULL ELSE 1]

\* auditService.logLLMInteraction: whether the llm_audit row is stored. The
\* write fails for the id 0 that stands for a missing message_audit row (the
\* foreign key); the error is caught and logged.
LogLLMInteraction(fails, messageAuditId) == ~fails /\ messageAuditId # 0

\* the answer of the outer catch block of the message handler
ProcessingError == [success |-> FALSE, message |-> Msg("error processing"), rows |-> <<>>]

\* index.ts: the handler of one text message the classifier made an action
\* of, up to the router's answer, with the faults f met on the way.
\* Messages are answered one at a time: the next one is taken when the
\* response to the last one has been sent.
Dispatch(user, group, action, ord, f) ==
    /\ lastMsg.user = NULL
    /\ \E mem \in {EnsureGroupMember(members, group, user)} :
       \E logged \in {LogMessage(f.messageAudit)} :
       \E out \in {IF logged.threw THEN [res |-> ProcessingError, db |-> CurrentDb]
                   ELSE Route(action, user, group, [CurrentDb EXCEPT !.down = f.store],
                              chkEnforced, mem, ord)} :
          /\ Inserted(out.db) <= MaxRows
          /\ members' = mem
          /\ todos' = out.db.todos
          /\ shopping' = out.db.shopping
          /\ events' = out.db.events
          /\ todoSeq' = out.db.todoSeq
          /\ shopSeq' = out.db.shopSeq
          /\ eventSeq' = out.db.eventSeq
          /\ lastMsg' = [user |-> user, group |-> group, action |-> action]
          /\ lastResult' = out.res
          /\ classified' = IF logged.threw THEN NoCall
                           ELSE Called(IF action.action = "" THEN "noaction" ELSE "action",
                                       TRUE)
          /\ audit' = [message |-> logged.id # NULL,
                       llm |-> ~logged.threw /\ LogLLMInteraction(f.llmAudit, logged.id)]
    /\ faults' = f
    /\ UNCHANGED <<chkEnforced, scopeIn, scopeOut, scheduler, zones, sessions>>

HandleMessage(user, group, action, ord) == Dispatch(user, group, action, ord, NoFaults)

-----------------------------------------------------------------------------
(* The classifier's outputs the model feeds to the router *)

\* a ParsedAction none of whose parameters is set
NoParameters ==
    [id |-> NULL, task |-> UNDEF, priority |-> "", deadline |-> NULL, item |-> UNDEF,
     items |-> NOITEMS, category |-> UNDEF, amount |-> UNDEF, title |-> UNDEF,
     description |-> UNDEF, start_time |-> UNDEFT, end_time |-> UNDEFT, date |-> NULL,
     queryType |-> ""]

ParsedAction(action, operation, sc, parameters) ==
    [action |-> action, operation |-> operation, scope |-> sc[1], scope_users |-> sc[2],
     parameters |-> parameters]

Unscoped == <<"", <<>>>>

\* scope labels with their scope_users: none, me, all_of_us, me_and_x naming
\* user 2, me_and_x naming nobody known
ScopeInputs ==
    {Unscoped, <<"me", <<>>>>, <<"all_of_us", <<>>>>,
     <<"me_and_x", << <<"B">> >> >>, <<"me_and_x", << <<"z">> >> >>}

\* who writes, and where: a private chat (NULL) or the group chat
Contexts == {<<1, NULL>>, <<1, GroupId>>, <<2, GroupId>>}

CreateInputs ==
    {ParsedAction("todo", "create", sc, [NoParameters EXCEPT !.task = <<"t">>]) :
        sc \in ScopeInputs}
    \cup {ParsedAction("shopping", "create", sc, [NoParameters EXCEPT !.item = <<"m">>]) :
        sc \in ScopeInputs}
    \cup {ParsedAction("calendar", "create", sc,
                       [NoParameters EXCEPT !.title = <<"e">>, !.start_time = 10]) :
        sc \in ScopeInputs}
    \cup {ParsedAction(kind, "create", Unscoped, NoParameters) :
        kind \in {"todo", "shopping", "calendar"}}

ListInputs ==
    {ParsedAction(kind, "list", sc, NoParameters) :
        kind \in {"todo", "shopping", "calendar"}, sc \in ScopeInputs}

QueryInputs ==
    {ParsedAction("query", "list", Unscoped, [NoParameters EXCEPT !.queryType = qt]) :
        qt \in {"", "todos", "shopping", "calendar"}}

-----------------------------------------------------------------------------
(* Specification: creating and reading records *)

NoMsg == [user |-> NULL, group |-> NULL, action |-> ParsedAction("", "", Unscoped, NoParameters)]

NoResult == [success |-> TRUE, message |-> Msg(""), rows |-> <<>>]

NoScopeIn == [scope |-> "", scopeUsers |-> <<>>, currentUserId |-> NULL, groupId |-> NULL]

\* parseScope has not been called yet
NotParsed ==
    [ok |-> FALSE, userId |-> NULL, groupId |-> NULL, assignedUserIds |-> <<>>,
     error |-> NoError]

\* the scheduler has not run: the clock stands at minute 0
NoTick == [now |-> 0, todos |-> {}, events |-> {}, before |-> [todos |-> {}, events |-> {}]]

\* users.timezone of every user is the column default; the row of the group
\* in `groups` (its columns beside the ids and timestamps); nothing was selected
DefaultZones ==
    [users |-> [u \in Users |-> "UTC"], group |-> [group_name |-> <<"g">>],
     sender |-> NULL, selected |-> "", answer |-> ""]

\* one message at a time
NoSessions == <<>>

Init ==
    /\ chkEnforced \in BOOLEAN
    /\ members = {1, 2}
    /\ todos = {} /\ shopping = {} /\ events = {}
    /\ todoSeq = 1 /\ shopSeq = 1 /\ eventSeq = 1
    /\ lastMsg = NoMsg
    /\ lastResult = NoResult
    /\ scopeIn = NoScopeIn
    /\ scopeOut = NotParsed
    /\ classified = NoCall
    /\ faults = NoFaults
    /\ audit = NoAudit
    /\ scheduler = NoTick
    /\ zones = DefaultZones
    /\ sessions = NoSessions

\* telegramBot.sendResponse: the answer leaves, the next message may come
SendResponse ==
    /\ lastMsg.user # NULL
    /\ lastMsg' = NoMsg
    /\ lastResult' = NoResult
    /\ classified' = NoCall
    /\ faults' = NoFaults
    /\ audit' = NoAudit
    /\ UNCHANGED <<chkEnforced, members, todos, shopping, events, todoSeq, shopSeq,
                   eventSeq, scopeIn, scopeOut, scheduler, zones, sessions>>

\* the identity order: rows come back in id order
IdOrder == [i \in 1..MaxRows |-> i]

\* a message the classifier reads as the creation of a record
Create ==
    \E c \in Contexts, a \in CreateInputs :
        /\ a.operation = "create"
        /\ HandleMessage(c[1], c[2], a, IdOrder)

\* a message the classifier reads as the listing of one kind of record
List ==
    \E c \in Contexts, a \in ListInputs, ord \in RowOrders :
        /\ a.action # "query"
        /\ HandleMessage(c[1], c[2], a, ord)

\* a message the classifier reads as a question about what is stored
Query ==
    \E c \in Contexts, a \in QueryInputs, ord \in RowOrders :
        /\ a.action = "query"
        /\ HandleMessage(c[1], c[2], a, ord)

Next == Create \/ List \/ Query \/ SendResponse

Spec == Init /\ [][Next]_vars

-----------------------------------------------------------------------------
(* Specification: parseScope on its own *)

\* names the classifier may put into scope_users: names of the three users in
\* other letter case, with an '@' or a trailing blank, and a name nobody has
ScopeNames ==
    {<<"A">>, <<"@", "a", "b">>, <<"B">>, <<"b", "o">>, <<"c", " ">>, <<"z">>}

NameLists == UNION {[1..n -> ScopeNames] : n \in 0..MaxNames}

ScopeLabels == {"me", "all_of_us", "me_and_x", "everyone"}

InitScope ==
    /\ chkEnforced = TRUE
    /\ members \in SUBSET Users
    /\ todos = {} /\ shopping = {} /\ events = {}
    /\ todoSeq = 1 /\ shopSeq = 1 /\ eventSeq = 1
    /\ lastMsg = NoMsg
    /\ lastResult = NoResult
    /\ scopeIn \in [scope : ScopeLabels, scopeUsers : NameLists,
                    currentUserId : Users, groupId : {NULL, GroupId}]
    /\ scopeOut = NotParsed
    /\ classified = NoCall
    /\ faults = NoFaults
    /\ audit = NoAudit
    /\ scheduler = NoTick
    /\ zones = DefaultZones
    /\ sessions = NoSessions

CallParseScope ==
    /\ scopeOut = NotParsed
    /\ scopeOut' = ParseScope(scopeIn.scope, scopeIn.scopeUsers, scopeIn.currentUserId,
                              scopeIn.groupId, members)
    /\ UNCHANGED <<chkEnforced, members, todos, shopping, events, todoSeq, shopSeq,
                   eventSeq, lastMsg, lastResult, scopeIn, classified, faults, audit,
                   scheduler, zones, sessions>>

NextScope == CallParseScope

SpecScope == InitScope /\ [][NextScope]_vars

Parsed == scopeOut # NotParsed

NoRepeat(s) == \A i, j \in 1..Len(s) : s[i] = s[j] => i = j

-----------------------------------------------------------------------------
(* C1 *)

\* C1: a successful me_and_x resolution lists the acting user first and lists
\* no user id twice.
C1_ActingUserFirstNoRepeat ==
    (Parsed /\ scopeIn.scope = "me_and_x" /\ scopeOut.ok)
        => /\ Len(scopeOut.assignedUserIds) >= 1
           /\ scopeOut.assignedUserIds[1] = scopeIn.currentUserId
           /\ NoRepeat(scopeOut.assignedUserIds)

-----------------------------------------------------------------------------
(* Reading the last message and its answer *)

\* the answer in hand is the one to an action of this kind and operation
LastIs(action, operation) ==
    /\ lastMsg.user # NULL
    /\ lastMsg.action.action = action
    /\ lastMsg.action.operation = operation

LastUnscoped == lastMsg.action.scope = ""

\* no ownership field of the row is set
Ownerless(r) == r.user_id = NULL /\ r.group_id = NULL /\ r.assigned_user_ids = <<>>

AnswerRows == SeqToSet(lastResult.rows)

-----------------------------------------------------------------------------
(* C2 *)

\* C2: an unscoped todo create by U that names a task succeeds and stores the
\* task; when that task is all the store holds, an unscoped todo list for U
\* returns exactly it, and an unscoped list for another user returns nothing
\* and answers "no todos found".
C2_UnscopedCreateThenList ==
    /\ (LastIs("todo", "create") /\ LastUnscoped
            /\ ~Missing(lastMsg.action.parameters.task))
        => /\ lastResult.success
           /\ \E r \in todos : /\ r.created_by = lastMsg.user
                               /\ r.task = lastMsg.action.parameters.task
    /\ (LastIs("todo", "list") /\ LastUnscoped)
        => \A r \in todos :
              (todos = {r} /\ Ownerless(r))
                 => IF r.created_by = lastMsg.user
                    THEN lastResult.rows = <<r>>
                    ELSE /\ lastResult.rows = <<>>
                         /\ lastResult.message = Msg("no todos found")

-----------------------------------------------------------------------------
(* C3 *)

\* C3: every stored task, shopping item and event has an owner user, an owner
\* group or a non-empty assignee list.
C3_NoOwnerlessRecord ==
    \A r \in todos \cup shopping \cup events : ~Ownerless(r)

-----------------------------------------------------------------------------
(* C4 *)

\* the record is the user's own, the current group's, or assigned to the user
VisibleTo(r, user, group) ==
    \/ r.user_id = user
    \/ (group # NULL /\ r.group_id = group)
    \/ user \in SeqToSet(r.assigned_user_ids)

\* the kinds of record the last message asks for
AsksFor(kind, queryType) ==
    \/ LastIs(kind, "list")
    \/ (LastIs("query", "list") /\ lastMsg.action.parameters.queryType \in {queryType, ""})

\* the records of the kind the last answer shows
Shown(kind) ==
    IF lastMsg.action.action = "query" /\ lastMsg.action.parameters.queryType = ""
    THEN SeqToSet(lastResult.message.listed[kind])
    ELSE AnswerRows

\* C4: the answer to an unscoped list or query shows every open record that is
\* the acting user's own, the current group's, or assigned to the acting user.
C4_UnscopedShowsAllThree ==
    /\ (LastUnscoped /\ AsksFor("todo", "todos"))
        => \A r \in todos :
              (~r.completed /\ VisibleTo(r, lastMsg.user, lastMsg.group))
                 => r \in Shown("todos")
    /\ (LastUnscoped /\ AsksFor("shopping", "shopping"))
        => \A r \in shopping :
              (~r.purchased /\ VisibleTo(r, lastMsg.user, lastMsg.group))
                 => r \in Shown("items")
    /\ (LastUnscoped /\ AsksFor("calendar", "calendar"))
        => \A r \in events :
              VisibleTo(r, lastMsg.user, lastMsg.group) => r \in Shown("events")

-----------------------------------------------------------------------------
(* C5 *)

NoRepeatedId(rows) == \A i, j \in 1..Len(rows) : rows[i].id = rows[j].id => i = j

LastIsRead ==
    \/ LastIs("todo", "list") \/ LastIs("shopping", "list") \/ LastIs("calendar", "list")
    \/ LastIs("query", "list")

\* which source finds the row first: the personal (1), the group (2) or the
\* assigned-to-me (3) lookup of a query
SourceRank(r) ==
    IF r.user_id = lastMsg.user THEN 1
    ELSE IF lastMsg.group # NULL /\ r.group_id = lastMsg.group THEN 2 ELSE 3

\* rows stand in the order of the sources that found them first
InSourceOrder(rows) ==
    \A i, j \in 1..Len(rows) : i < j => SourceRank(rows[i]) <= SourceRank(rows[j])

\* C5: no answer to a list or a query shows two rows of the same id, and a row
\* several lookups returned stands where the first of them (personal, then
\* group, then assigned) put it: the shopping rows of a query, which are not
\* sorted afterwards, stand in the order of their first lookups.
C5_NoIdTwiceFirstCopyKept ==
    LastIsRead
        => /\ NoRepeatedId(lastResult.rows)
           /\ NoRepeatedId(lastResult.message.listed.todos)
           /\ NoRepeatedId(lastResult.message.listed.items)
           /\ NoRepeatedId(lastResult.message.listed.events)
           /\ (LastIs("query", "list") /\ lastMsg.action.parameters.queryType = "shopping")
                 => InSourceOrder(lastResult.rows)
           /\ InSourceOrder(lastResult.message.listed.items)

\* a query in the group chat answered with a row that both the group lookup and
\* the assigned-to-me lookup return, next to a second row
C5_Witness ==
    /\ LastIs("query", "list")
    /\ lastMsg.group # NULL
    /\ Len(lastResult.rows) = 2
    /\ \E r \in AnswerRows :
          /\ r.group_id = lastMsg.group
          /\ lastMsg.user \in SeqToSet(r.assigned_user_ids)

-----------------------------------------------------------------------------
(* C8 *)

\* the tables and their counters are what they were
RecordsUnchanged ==
    UNCHANGED <<todos, shopping, events, todoSeq, shopSeq, eventSeq>>

\* C8: a create with scope all_of_us that arrives outside a group is answered
\* with success false and the scope error's message, and the step that handles
\* it leaves every table as it was.
C8_AllOfUsNeedsGroup ==
    [][(/\ lastMsg'.user # NULL
        /\ lastMsg'.group = NULL
        /\ lastMsg'.action.operation = "create"
        /\ lastMsg'.action.scope = "all_of_us")
          => /\ ~lastResult'.success
             /\ lastResult'.message = Msg("\"all_of_us\" scope requires a group context")
             /\ RecordsUnchanged]_vars

\* the refusal has been given for a create in a private chat, with a record of
\* an earlier create in the store
C8_Witness ==
    /\ LastIs("shopping", "create") \/ LastIs("todo", "create") \/ LastIs("calendar", "create")
    /\ lastMsg.group = NULL
    /\ lastMsg.action.scope = "all_of_us"
    /\ ~lastResult.success
    /\ lastResult.message.text = "\"all_of_us\" scope requires a group context"
    /\ todos \cup shopping \cup events # {}

-----------------------------------------------------------------------------
(* Specification: operations on stored records *)

ByIdContexts == {<<1, NULL>>, <<2, GroupId>>}

\* ids a message may name: none, the first row's, and with two rows stored
\* the second's
RowIds == {NULL} \cup 1..(MaxRows - 1)

\* scope labels a classifier may attach to an operation on a stored record
ByIdScopes == {Unscoped, <<"all_of_us", <<>>>>, <<"me_and_x", << <<"z">> >> >>}

OwnedCreateInputs ==
    {ParsedAction("todo", "create", <<"me", <<>>>>, [NoParameters EXCEPT !.task = <<"t">>]),
     ParsedAction("shopping", "create", <<"me", <<>>>>,
                  [NoParameters EXCEPT !.item = <<"m">>]),
     ParsedAction("shopping", "create", <<"all_of_us", <<>>>>,
                  [NoParameters EXCEPT !.item = <<"m">>]),
     ParsedAction("calendar", "create", <<"me", <<>>>>,
                  [NoParameters EXCEPT !.title = <<"e">>, !.start_time = 10])}

UpdateInputs ==
    {ParsedAction("todo", "update", sc,
                  [NoParameters EXCEPT !.id = id, !.priority = "high"]) :
        id \in RowIds, sc \in ByIdScopes}
    \cup {ParsedAction("shopping", "update", sc,
                       [NoParameters EXCEPT !.id = id, !.category = <<"d">>]) :
        id \in RowIds, sc \in ByIdScopes}
    \cup {ParsedAction("calendar", "update", sc,
                       [NoParameters EXCEPT !.id = id, !.title = <<"f">>]) :
        id \in RowIds, sc \in ByIdScopes}

DeleteInputs ==
    {ParsedAction(kind, "delete", sc, [NoParameters EXCEPT !.id = id]) :
        kind \in {"todo", "shopping", "calendar"}, id \in RowIds, sc \in ByIdScopes}

MarkCompleteInputs ==
    {ParsedAction("todo", "mark_complete", sc, [NoParameters EXCEPT !.id = id]) :
        id \in RowIds, sc \in ByIdScopes}

\* "I bought it" by id, with nothing named, with item null ("everything"),
\* by name, and by a list of names
MarkPurchasedInputs ==
    {ParsedAction("shopping", "mark_purchased", sc, pa) :
        sc \in ByIdScopes,
        pa \in {[NoParameters EXCEPT !.id = id] : id \in RowIds}
               \cup {[NoParameters EXCEPT !.item = JSNULL],
                     [NoParameters EXCEPT !.item = <<"m">>],
                     [NoParameters EXCEPT !.items = << <<"m">> >>]}}

CreateOwned ==
    \E c \in ByIdContexts, a \in OwnedCreateInputs :
        /\ a.operation = "create"
        /\ HandleMessage(c[1], c[2], a, IdOrder)

Update ==
    \E c \in ByIdContexts, a \in UpdateInputs :
        /\ a.operation = "update"
        /\ HandleMessage(c[1], c[2], a, IdOrder)

Delete ==
    \E c \in ByIdContexts, a \in DeleteInputs :
        /\ a.operation = "delete"
        /\ HandleMessage(c[1], c[2], a, IdOrder)

MarkComplete ==
    \E c \in ByIdContexts, a \in MarkCompleteInputs :
        /\ a.operation = "mark_complete"
        /\ HandleMessage(c[1], c[2], a, IdOrder)

MarkPurchased ==
    \E c \in ByIdContexts, a \in MarkPurchasedInputs, ord \in RowOrders :
        /\ a.operation = "mark_purchased"
        /\ HandleMessage(c[1], c[2], a, ord)

NextById ==
    CreateOwned \/ Update \/ Delete \/ MarkComplete \/ MarkPurchased \/ SendResponse

SpecById == Init /\ [][NextById]_vars

-----------------------------------------------------------------------------
(* C6 *)

ScopeErrorTexts ==
    {"\"all_of_us\" scope requires a group context",
     "\"me_and_x\" scope requires at least one other user",
     "Could not find users: ", "Unknown scope: "}

ByIdOperations == {"update", "delete", "mark_complete", "mark_purchased"}

\* C6: no update, delete, mark_complete or mark_purchased is answered with a
\* scope error, whatever scope label it carries.
C6_NoScopeErrorOnStoredRecord ==
    (lastMsg.user # NULL /\ lastMsg.action.operation \in ByIdOperations)
        => lastResult.message.text \notin ScopeErrorTexts

-----------------------------------------------------------------------------
(* C7 *)

MissingIdText(action, operation) ==
    CASE action = "todo" /\ operation = "update" -> "Todo ID is required for update"
      [] action = "todo" -> "Todo ID is required"
      [] action = "shopping" /\ operation = "update" -> "Item ID is required for update"
      [] action = "shopping" -> "Item ID is required"
      [] action = "calendar" /\ operation = "update" -> "Event ID is required for update"
      [] OTHER -> "Event ID is required"

-----------------------------------------------------------------------------
(* C9 *)

\* the user goes by the name, letter case, a leading '@' and blanks around it
\* aside
HasName(u, name) ==
    \E own \in {UserRow(u).custom_name, UserRow(u).display_name,
                UserRow(u).telegram_username} :
        own # NOSTR /\ ToLower(own) = ToLower(Trim(RemoveFirst(name, "@")))

Known(name) == \E u \in Users : HasName(u, name)

\* C9: parseScope('me_and_x') fails exactly when no name of the list is a
\* user's name (the empty list included); with a non-empty list of unknown
\* names the error names the list as given; otherwise it succeeds with the
\* acting user followed by the users of the known names in order, the unknown
\* names dropped.
C9_MeAndXFailsIffNoneResolves ==
    (Parsed /\ scopeIn.scope = "me_and_x")
        => LET names == scopeIn.scopeUsers
               known == SelectSeq(names, Known)
           IN /\ scopeOut.ok <=> known # <<>>
              /\ names = <<>>
                    => scopeOut.error =
                          [text |-> "\"me_and_x\" scope requires at least one other user",
                           names |-> <<>>]
              /\ (names # <<>> /\ known = <<>>)
                    => scopeOut.error = [text |-> "Could not find users: ", names |-> names]
              /\ known # <<>>
                    => /\ Len(scopeOut.assignedUserIds) = 1 + Len(known)
                       /\ scopeOut.assignedUserIds[1] = scopeIn.currentUserId
                       /\ \A k \in 1..Len(known) :
                             HasName(scopeOut.assignedUserIds[k + 1], known[k])

\* a list with a known and an unknown name has been resolved
C9_Witness ==
    /\ Parsed /\ scopeIn.scope = "me_and_x" /\ scopeOut.ok
    /\ \E i \in 1..Len(scopeIn.scopeUsers) : ~Known(scopeIn.scopeUsers[i])
    /\ Len(scopeOut.assignedUserIds) = Len(scopeIn.scopeUsers)

-----------------------------------------------------------------------------
(* C10 *)

\* how many of the three ownership fields the result sets
FieldsSet(sd) ==
    (IF sd.userId # NULL THEN 1 ELSE 0) + (IF sd.groupId # NULL THEN 1 ELSE 0)
    + (IF sd.assignedUserIds # <<>> THEN 1 ELSE 0)

\* C10 as stated: every value parseScope returns sets exactly one of owner
\* user, owner group and assignee list.
C10_ExactlyOneShape == (Parsed /\ scopeOut.ok) => FieldsSet(scopeOut) = 1

\* C10, amended: a 'me' result sets the owner user alone, an 'all_of_us'
\* result the owner group alone; a 'me_and_x' result sets the assignee list,
\* no owner user, and the group id of the chat when the call comes from a
\* group (none otherwise).
C10_ShapeByLabel ==
    (Parsed /\ scopeOut.ok)
        => CASE scopeIn.scope = "me" ->
                   /\ scopeOut.userId = scopeIn.currentUserId
                   /\ scopeOut.groupId = NULL
                   /\ scopeOut.assignedUserIds = <<>>
             [] scopeIn.scope = "all_of_us" ->
                   /\ scopeOut.userId = NULL
                   /\ scopeOut.groupId = scopeIn.groupId /\ scopeOut.groupId # NULL
                   /\ scopeOut.assignedUserIds = <<>>
             [] scopeIn.scope = "me_and_x" ->
                   /\ scopeOut.userId = NULL
                   /\ scopeOut.groupId = scopeIn.groupId
                   /\ scopeOut.assignedUserIds # <<>>
             [] OTHER -> FALSE

\* a me_and_x call from the group has returned assignees and the group id
C10_Witness ==
    /\ Parsed /\ scopeOut.ok /\ scopeIn.scope = "me_and_x"
    /\ scopeOut.groupId = GroupId
    /\ scopeOut.assignedUserIds # <<>>

-----------------------------------------------------------------------------
(* Specification: the group's shopping list *)

\* two members writing in the group chat, one of them also in private, and
\* user 3, who never wrote in the group
ShopContexts == {<<1, GroupId>>, <<2, GroupId>>, <<1, NULL>>, <<3, NULL>>}

ItemCreateInputs ==
    {ParsedAction("shopping", "create", sc, [NoParameters EXCEPT !.item = <<"m">>]) :
        sc \in ScopeInputs}

ItemReadInputs ==
    {ParsedAction("shopping", "list", sc, NoParameters) : sc \in ScopeInputs}
    \cup {ParsedAction("query", "list", Unscoped, [NoParameters EXCEPT !.queryType = qt]) :
        qt \in {"", "shopping"}}

CreateItem ==
    \E c \in ShopContexts, a \in ItemCreateInputs :
        /\ a.operation = "create"
        /\ HandleMessage(c[1], c[2], a, IdOrder)

ReadItems ==
    \E c \in ShopContexts, a \in ItemReadInputs, ord \in RowOrders :
        /\ a.operation = "list"
        /\ HandleMessage(c[1], c[2], a, ord)

NextShop == CreateItem \/ ReadItems \/ SendResponse

SpecShop == Init /\ [][NextShop]_vars

-----------------------------------------------------------------------------
(* C11 *)

\* an open shopping item created with scope all_of_us in the group
GroupItem(r) ==
    r.group_id = GroupId /\ r.user_id = NULL /\ r.assigned_user_ids = <<>> /\ ~r.purchased

\* the shopping rows the last answer shows, whichever read it answers
ItemsShown == AnswerRows \cup SeqToSet(lastResult.message.listed.items)

\* C11: findByGroup returns every open item of the group; the answer to a
\* member's unscoped shopping list or query in the group chat shows every such
\* item; no answer to a user who is not a member shows one.
C11_GroupItemSeenByMembersOnly ==
    /\ \A r \in shopping :
          GroupItem(r) => r \in SeqToSet(ShoppingFindByGroup(CurrentDb, GroupId, FALSE, UNDEF))
    /\ (LastUnscoped /\ AsksFor("shopping", "shopping")
            /\ lastMsg.group = GroupId /\ lastMsg.user \in members)
        => \A r \in shopping : GroupItem(r) => r \in Shown("items")
    /\ (LastIsRead /\ lastMsg.user \notin members)
        => \A r \in ItemsShown : r.group_id # GroupId

-----------------------------------------------------------------------------
(* Specification: the order of tasks *)

TodoContexts == {<<1, NULL>>, <<1, GroupId>>, <<2, GroupId>>}

\* scopes that store a task under either setting of the server
OwnedScopes == {<<"me", <<>>>>, <<"all_of_us", <<>>>>, <<"me_and_x", << <<"B">> >> >>}

\* the deadline a message may name (hours since the epoch of the model)
SomeDeadline == 30

TaskCreateInputs ==
    {ParsedAction("todo", "create", sc,
                  [NoParameters EXCEPT !.task = <<"t">>, !.priority = pr, !.deadline = dl]) :
        sc \in OwnedScopes, pr \in {"", "high"}, dl \in {NULL, SomeDeadline}}

TaskReadInputs ==
    {ParsedAction("todo", "list", sc, NoParameters) : sc \in OwnedScopes \cup {Unscoped}}
    \cup {ParsedAction("query", "list", Unscoped, [NoParameters EXCEPT !.queryType = "todos"])}

CreateTask ==
    \E c \in TodoContexts, a \in TaskCreateInputs :
        /\ a.operation = "create"
        /\ HandleMessage(c[1], c[2], a, IdOrder)

ReadTasks ==
    \E c \in TodoContexts, a \in TaskReadInputs :
        /\ a.operation = "list"
        /\ HandleMessage(c[1], c[2], a, IdOrder)

NextTodo == CreateTask \/ ReadTasks \/ SendResponse

SpecTodo == Init /\ [][NextTodo]_vars

\* the last answer is a sequence of tasks
LastIsTaskRead ==
    \/ LastIs("todo", "list")
    \/ (LastIs("query", "list") /\ lastMsg.action.parameters.queryType = "todos")

-----------------------------------------------------------------------------
(* C12 *)

\* C12: in the tasks a todo list or query returns, no task without a deadline
\* stands before a task with one.
C12_NoDeadlineLast ==
    LastIsTaskRead
        => \A i, j \in 1..Len(lastResult.rows) :
              (i < j /\ lastResult.rows[i].deadline = NULL)
                 => lastResult.rows[j].deadline = NULL

\* a list answered with a task with a deadline, of default priority, before a
\* task without one, of high priority
C12_Witness ==
    /\ LastIsTaskRead
    /\ Len(lastResult.rows) = 2
    /\ lastResult.rows[1].deadline # NULL /\ lastResult.rows[1].priority = "medium"
    /\ lastResult.rows[2].deadline = NULL /\ lastResult.rows[2].priority = "high"

-----------------------------------------------------------------------------
(* C13 *)

\* C13: in the tasks a todo list or query returns, of two tasks with the same
\* deadline the one of higher priority stands first, and of two with the same
\* deadline and priority the one created later (the higher id) stands first.
C13_PriorityThenNewestFirst ==
    LastIsTaskRead
        => \A i, j \in 1..Len(lastResult.rows) :
              (i < j /\ lastResult.rows[i].deadline = lastResult.rows[j].deadline)
                 => \/ PriorityIndex(lastResult.rows[i].priority)
                          > PriorityIndex(lastResult.rows[j].priority)
                    \/ /\ lastResult.rows[i].priority = lastResult.rows[j].priority
                       /\ lastResult.rows[i].id > lastResult.rows[j].id

-----------------------------------------------------------------------------
(* Specification: updates of stored records *)

UpdateContexts == {<<1, NULL>>}

PlainCreateInputs ==
    {ParsedAction("todo", "create", <<"me", <<>>>>, [NoParameters EXCEPT !.task = <<"t">>]),
     ParsedAction("shopping", "create", <<"me", <<>>>>,
                  [NoParameters EXCEPT !.item = <<"m">>]),
     ParsedAction("calendar", "create", <<"me", <<>>>>,
                  [NoParameters EXCEPT !.title = <<"e">>, !.start_time = 10])}

\* the fields an update message may carry: none, or one of three
TodoPartials ==
    {NoParameters, [NoParameters EXCEPT !.task = <<"u">>],
     [NoParameters EXCEPT !.priority = "high"], [NoParameters EXCEPT !.deadline = SomeDeadline]}

ShoppingPartials ==
    {NoParameters, [NoParameters EXCEPT !.item = <<"n">>],
     [NoParameters EXCEPT !.category = <<"d">>], [NoParameters EXCEPT !.amount = <<"a">>]}

EventPartials ==
    {NoParameters, [NoParameters EXCEPT !.title = <<"f">>],
     [NoParameters EXCEPT !.description = <<"g">>], [NoParameters EXCEPT !.start_time = 20]}

PartialInputs ==
    {ParsedAction("todo", "update", Unscoped, [pa EXCEPT !.id = id]) :
        pa \in TodoPartials, id \in RowIds}
    \cup {ParsedAction("shopping", "update", Unscoped, [pa EXCEPT !.id = id]) :
        pa \in ShoppingPartials, id \in RowIds}
    \cup {ParsedAction("calendar", "update", Unscoped, [pa EXCEPT !.id = id]) :
        pa \in EventPartials, id \in RowIds}

PlainDeleteInputs ==
    {ParsedAction(kind, "delete", Unscoped, [NoParameters EXCEPT !.id = id]) :
        kind \in {"todo", "shopping", "calendar"}, id \in RowIds}

CreatePlain ==
    \E c \in UpdateContexts, a \in PlainCreateInputs :
        /\ a.operation = "create"
        /\ HandleMessage(c[1], c[2], a, IdOrder)

UpdatePartial ==
    \E c \in UpdateContexts, a \in PartialInputs :
        /\ a.operation = "update"
        /\ HandleMessage(c[1], c[2], a, IdOrder)

DeletePlain ==
    \E c \in UpdateContexts, a \in PlainDeleteInputs :
        /\ a.operation = "delete"
        /\ HandleMessage(c[1], c[2], a, IdOrder)

NextUpdate == CreatePlain \/ UpdatePartial \/ DeletePlain \/ SendResponse

SpecUpdate == Init /\ [][NextUpdate]_vars

-----------------------------------------------------------------------------
(* C14 *)

\* a record with the fields a message names set to the message's values
TaskWith(r, p) ==
    [r EXCEPT !.task = IF p.task = UNDEF THEN @ ELSE p.task,
              !.priority = IF p.priority = "" THEN @ ELSE p.priority,
              !.deadline = IF p.deadline = NULL THEN @ ELSE p.deadline]

ItemWith(r, p) ==
    [r EXCEPT !.item = IF p.item = UNDEF THEN @ ELSE p.item,
              !.category = IF p.category = UNDEF THEN @ ELSE p.category,
              !.amount = IF p.amount = UNDEF THEN @ ELSE p.amount]

EventWith(r, p) ==
    [r EXCEPT !.title = IF p.title = UNDEF THEN @ ELSE p.title,
              !.description = IF p.description = UNDEF THEN @ ELSE p.description,
              !.start_time = IF p.start_time = UNDEFT THEN @ ELSE p.start_time]

\* the step handles an update message that names an id
UpdateStep ==
    /\ lastMsg.user = NULL /\ lastMsg'.user # NULL
    /\ lastMsg'.action.operation = "update"
    /\ lastMsg'.action.parameters.id # NULL

\* C14: an update of a stored record sets the fields the message names to the
\* message's values and leaves every other field and every other record as
\* it was (with no field named: the record is returned as it was), so that a
\* second update naming another field keeps the change of the first.
C14_UpdateSetsOnlyNamedFields ==
    [][UpdateStep =>
        LET a == lastMsg'.action.action
            p == lastMsg'.action.parameters
            Same(kind, r) == ~(a = kind /\ r.id = p.id)
        IN /\ todos' = {IF Same("todo", r) THEN r ELSE TaskWith(r, p) : r \in todos}
           /\ shopping' = {IF Same("shopping", r) THEN r ELSE ItemWith(r, p) : r \in shopping}
           /\ events' = {IF Same("calendar", r) THEN r ELSE EventWith(r, p) : r \in events}
           /\ lastResult'.success
                 => /\ Len(lastResult'.rows) = 1
                    /\ lastResult'.rows[1] \in todos' \cup shopping' \cup events'
                    /\ lastResult'.rows[1].id = p.id
    ]_vars

\* a task whose text an earlier update changed, returned by an update that
\* names only a priority, with both changes
C14_Witness ==
    /\ LastIs("todo", "update")
    /\ lastMsg.action.parameters.task = UNDEF
    /\ lastMsg.action.parameters.priority = "high"
    /\ lastResult.success
    /\ lastResult.rows[1].task = <<"u">>
    /\ lastResult.rows[1].priority = "high"

-----------------------------------------------------------------------------
(* C15 *)

\* the step handles a delete message that names an id
DeleteStep ==
    /\ lastMsg.user = NULL /\ lastMsg'.user # NULL
    /\ lastMsg'.action.operation = "delete"
    /\ lastMsg'.action.parameters.id # NULL

\* the ids of a kind that were given out and are stored no longer
Gone(rows, seq) == {id \in 1..(seq - 1) : \A r \in rows : r.id # id}

\* C15: a delete succeeds exactly when a record of the kind with the id is
\* stored; it removes that record and no other, and changes nothing when
\* there is none (so a second delete of the id fails and changes nothing);
\* and an id that is gone is never stored again.
C15_DeleteOnceForGood ==
    [][/\ DeleteStep =>
            LET a == lastMsg'.action.action
                id == lastMsg'.action.parameters.id
                stored == IF a = "todo" THEN todos
                          ELSE IF a = "shopping" THEN shopping ELSE events
            IN /\ lastResult'.success <=> (\E r \in stored : r.id = id)
               /\ todos' = {r \in todos : ~(a = "todo" /\ r.id = id)}
               /\ shopping' = {r \in shopping : ~(a = "shopping" /\ r.id = id)}
               /\ events' = {r \in events : ~(a = "calendar" /\ r.id = id)}
       /\ Gone(todos, todoSeq) \subseteq Gone(todos', todoSeq')
       /\ Gone(shopping, shopSeq) \subseteq Gone(shopping', shopSeq')
       /\ Gone(events, eventSeq) \subseteq Gone(events', eventSeq')
    ]_vars

\* a second delete of a task: the task with id 1 was stored and is gone, and
\* the delete of id 1 is refused
C15_Witness ==
    /\ LastIs("todo", "delete")
    /\ lastMsg.action.parameters.id = 1
    /\ 1 \in Gone(todos, todoSeq)
    /\ ~lastResult.success
    /\ lastResult.message.text = "Todo not found"

-----------------------------------------------------------------------------
(* C16 *)

\* C16: a mark_purchased whose id is the id of no stored shopping item is
\* answered with the failure 'Item not found', and its step leaves the
\* shopping items as they were.
C16_UnknownIdItemNotFound ==
    [][(/\ lastMsg.user = NULL /\ lastMsg'.user # NULL
        /\ lastMsg'.action.action = "shopping"
        /\ lastMsg'.action.operation = "mark_purchased"
        /\ lastMsg'.action.parameters.id # NULL
        /\ \A r \in shopping : r.id # lastMsg'.action.parameters.id)
          => /\ ~lastResult'.success
             /\ lastResult'.message.text = "Item not found"
             /\ shopping' = shopping]_vars

-----------------------------------------------------------------------------
(* C17 *)

\* the columns of a table that hold the user who completed or purchased the
\* row: todos has none, shopping_items has purchased_by
ActorColumns(action) == IF action = "shopping" THEN {"purchased_by"} ELSE {}

Flag(action, r) == IF action = "shopping" THEN r.purchased ELSE r.completed

\* C17: after a successful mark_complete or mark_purchased, every stored
\* record the answer names has its flag set and stores the acting user as
\* the one who completed or purchased it.
C17_ActorRecorded ==
    (/\ lastMsg.user # NULL
     /\ lastMsg.action.operation \in {"mark_complete", "mark_purchased"}
     /\ lastResult.success)
        => \A r \in (IF lastMsg.action.action = "shopping" THEN shopping ELSE todos) :
              (\E i \in 1..Len(lastResult.rows) : lastResult.rows[i].id = r.id)
                 => /\ Flag(lastMsg.action.action, r)
                    /\ \E c \in ActorColumns(lastMsg.action.action) : r[c] = lastMsg.user

-----------------------------------------------------------------------------
(* Specification: creates and the records they return *)

RoundTripContexts == {<<1, GroupId>>, <<2, GroupId>>}

RoundTripScopes == {<<"me", <<>>>>, <<"me_and_x", << <<"B">> >> >>}

\* category and amount as a classifier may write them: left out, plain,
\* with a leading blank, and blank
Categories == {UNDEF, <<"d">>, <<" ", "d">>, <<" ">>}

Amounts == {UNDEF, <<"a">>}

RoundTripInputs ==
    {ParsedAction("todo", "create", sc,
                  [NoParameters EXCEPT !.task = <<"t">>, !.priority = pr, !.deadline = dl]) :
        sc \in RoundTripScopes, pr \in {"", "low"}, dl \in {NULL, SomeDeadline}}
    \cup {ParsedAction("shopping", "create", sc,
                       [NoParameters EXCEPT !.item = <<"m">>, !.category = ca, !.amount = am]) :
        sc \in RoundTripScopes, ca \in Categories, am \in Amounts}
    \cup {ParsedAction("calendar", "create", sc,
                       [NoParameters EXCEPT !.title = <<"e">>, !.start_time = 10,
                                            !.description = de]) :
        sc \in RoundTripScopes, de \in {UNDEF, <<"g">>}}

\* creates that lack a mandatory field, without scope label, with one that
\* resolves and with one that does not
IncompleteScopes == {Unscoped, <<"me_and_x", << <<"B">> >> >>, <<"me_and_x", << <<"z">> >> >>}

IncompleteInputs ==
    {ParsedAction(kind, "create", sc, pa) :
        kind \in {"todo", "shopping"}, sc \in IncompleteScopes, pa \in {NoParameters}}
    \cup {ParsedAction("calendar", "create", sc, pa) :
        sc \in IncompleteScopes,
        pa \in {NoParameters, [NoParameters EXCEPT !.title = <<"e">>],
                [NoParameters EXCEPT !.start_time = 10]}}

CreateRecord ==
    \E c \in RoundTripContexts, a \in RoundTripInputs :
        /\ a.operation = "create"
        /\ HandleMessage(c[1], c[2], a, IdOrder)

CreateIncomplete ==
    \E c \in RoundTripContexts, a \in IncompleteInputs :
        /\ a.parameters.task = UNDEF
        /\ HandleMessage(c[1], c[2], a, IdOrder)

NextCreate == CreateRecord \/ CreateIncomplete \/ SendResponse

SpecCreate == Init /\ [][NextCreate]_vars

-----------------------------------------------------------------------------
(* C18 *)

\* a text field was submitted, and the record holds it as submitted
KeptText(submitted, stored) == submitted \in {UNDEF, JSNULL} \/ stored = submitted

\* C18: the record a successful create returns (the record read back by its
\* new id) holds every submitted payload field as it was submitted, and its
\* assignee list is the list the scope resolver handed to the store.
C18_CreateReturnsWhatWasSubmitted ==
    (lastMsg.user # NULL /\ lastMsg.action.operation = "create" /\ lastResult.success)
        => LET p == lastMsg.action.parameters
               r == lastResult.rows[1]
               sd == ParseScope(lastMsg.action.scope, lastMsg.action.scope_users,
                                lastMsg.user, lastMsg.group, members)
           IN /\ r.assigned_user_ids = sd.assignedUserIds
              /\ CASE lastMsg.action.action = "todo" ->
                        /\ r.task = p.task
                        /\ p.priority # "" => r.priority = p.priority
                        /\ p.deadline # NULL => r.deadline = p.deadline
                   [] lastMsg.action.action = "shopping" ->
                        /\ r.item = p.item
                        /\ KeptText(p.category, r.category)
                        /\ KeptText(p.amount, r.amount)
                   [] OTHER ->
                        /\ r.title = p.title
                        /\ KeptText(p.description, r.description)
                        /\ r.start_time = p.start_time

-----------------------------------------------------------------------------
(* C19 *)

\* the step handles a create message that lacks a mandatory field
IncompleteCreateStep ==
    /\ lastMsg.user = NULL /\ lastMsg'.user # NULL
    /\ lastMsg'.action.operation = "create"
    /\ CASE lastMsg'.action.action = "todo" -> lastMsg'.action.parameters.task = UNDEF
         [] lastMsg'.action.action = "shopping" -> lastMsg'.action.parameters.item = UNDEF
         [] OTHER -> \/ lastMsg'.action.parameters.title = UNDEF
                     \/ lastMsg'.action.parameters.start_time = UNDEFT

\* the validation error of a create message
RequiredText(a) ==
    CASE a.action = "todo" -> "Task is required"
      [] a.action = "shopping" -> "Item is required"
      [] a.parameters.title = UNDEF -> "Title is required"
      [] OTHER -> "Start time is required"

\* C19 as stated: every create that lacks a mandatory payload field is
\* answered with a failure that carries the validation error, and its step
\* stores no record.
C19_IncompleteCreateIsValidationError ==
    [][IncompleteCreateStep
          => /\ ~lastResult'.success
             /\ lastResult'.message.text = RequiredText(lastMsg'.action)
             /\ RecordsUnchanged]_vars

\* C19, amended: every create that lacks a mandatory payload field is
\* answered with a failure and its step stores no record; the failure carries
\* the scope error when the action has a scope label that does not resolve,
\* and the validation error otherwise.
C19_IncompleteCreateFails ==
    [][IncompleteCreateStep
          => LET a == lastMsg'.action
                 sd == ParseScope(a.scope, a.scope_users, lastMsg'.user,
                                  lastMsg'.group, members')
             IN /\ ~lastResult'.success
                /\ RecordsUnchanged
                /\ lastResult'.message.text =
                      IF a.scope # "" /\ ~sd.ok THEN sd.error.text ELSE RequiredText(a)]_vars

\* a create without a task text, with a scope label that resolves, refused
\* with the validation error while a task is stored
C19_Witness ==
    /\ LastIs("todo", "create")
    /\ lastMsg.action.parameters.task = UNDEF
    /\ lastMsg.action.scope = "me_and_x"
    /\ lastMsg.action.scope_users = << <<"B">> >>
    /\ ~lastResult.success
    /\ lastResult.message.text = "Task is required"
    /\ todos # {}

-----------------------------------------------------------------------------
(* Specification: the classifier's answer *)

ClassifyContexts == {<<1, NULL>>, <<2, GroupId>>}

\* a JSON object without an action field
NoAction == ParsedAction("", "", Unscoped, NoParameters)

\* what the completion request may come to: the request fails ("error"),
\* the completion has no content ("empty"), the content is no JSON
\* ("badjson"), or it is a JSON object, with or without an action field
Completions ==
    {[kind |-> k, object |-> NoAction] : k \in {"error", "empty", "badjson"}}
    \cup {[kind |-> "object", object |-> a] : a \in PlainCreateInputs \cup {NoAction}}

\* parseMessage, with the check of the action field left out
ParseMessageUnvalidated(completion) ==
    IF completion.kind # "object"
    THEN [success |-> FALSE, hasAction |-> FALSE, action |-> NoAction,
          outcome |-> completion.kind]
    ELSE [success |-> TRUE, hasAction |-> TRUE, action |-> completion.object,
          outcome |-> "action"]

\* parseMessage: the ParseResult; action: null (hasAction FALSE) on failure
ParseMessage(completion) ==
    IF completion.kind # "object"
    THEN [success |-> FALSE, hasAction |-> FALSE, action |-> NoAction,
          outcome |-> completion.kind]
    ELSE IF completion.object.action = ""
    THEN [success |-> FALSE, hasAction |-> FALSE, action |-> NoAction,
          outcome |-> "noaction"]
    ELSE [success |-> TRUE, hasAction |-> TRUE, action |-> completion.object,
          outcome |-> "action"]

\* the answer to a message the classifier made nothing of
NotUnderstoodResult ==
    [success |-> FALSE, message |-> Msg("could not understand"), rows |-> <<>>]

\* index.ts, the handler of one text message: parseMessage, then the answer
\* that the request was not understood, or actionRouter.route
OnText(user, group, completion) ==
    \E parseResult \in {ParseMessage(completion)} :
        IF ~parseResult.success \/ ~parseResult.hasAction
        THEN /\ lastMsg.user = NULL
             /\ members' = EnsureGroupMember(members, group, user)
             /\ lastMsg' = [user |-> user, group |-> group, action |-> NoAction]
             /\ lastResult' = NotUnderstoodResult
             /\ classified' = Called(parseResult.outcome, FALSE)
             /\ faults' = NoFaults
             /\ audit' = [message |-> TRUE, llm |-> TRUE]
             /\ UNCHANGED <<chkEnforced, todos, shopping, events, todoSeq, shopSeq,
                            eventSeq, scopeIn, scopeOut, scheduler, zones, sessions>>
        ELSE HandleMessage(user, group, parseResult.action, IdOrder)

\* a message whose completion is a JSON object
Answered ==
    \E c \in ClassifyContexts, completion \in Completions :
        /\ completion.kind = "object"
        /\ OnText(c[1], c[2], completion)

\* a message whose completion request fails or yields no JSON object
Unanswered ==
    \E c \in ClassifyContexts, completion \in Completions :
        /\ completion.kind # "object"
        /\ OnText(c[1], c[2], completion)

NextClassify == Answered \/ Unanswered \/ SendResponse

SpecClassify == Init /\ [][NextClassify]_vars

-----------------------------------------------------------------------------
(* C20 *)

\* the outcomes of a classifier call that failed or gave no action field
FailedOutcomes == {"error", "empty", "badjson", "noaction"}

\* C20: when the classifier call fails or its object has no action field, the
\* sender is answered that the request was not understood, the router is not
\* called, no record is created, changed or deleted, and the classifier has
\* been called once.
C20_ClassifierFailureNotRouted ==
    [][(/\ lastMsg.user = NULL /\ lastMsg'.user # NULL
        /\ classified'.outcome \in FailedOutcomes)
          => /\ lastResult'.message.text = "could not understand"
             /\ ~lastResult'.success
             /\ ~classified'.routed
             /\ classified'.calls = 1
             /\ RecordsUnchanged]_vars

\* an object without action field has been answered with 'could not
\* understand' while a task is stored
C20_Witness ==
    /\ lastMsg.user # NULL
    /\ classified = Called("noaction", FALSE)
    /\ lastResult = NotUnderstoodResult
    /\ todos # {}

-----------------------------------------------------------------------------
(* Specification: failing audit writes and failing store statements *)

FaultContexts == {<<1, NULL>>, <<2, GroupId>>}

Tables == {"todos", "shopping_items", "calendar_events"}

\* one or both audit writes fail, the entity tables answer
AuditFaults ==
    {[messageAudit |-> m, llmAudit |-> l, store |-> {}] : m, l \in BOOLEAN} \ {NoFaults}

\* the statements on some of the entity tables fail, the audit writes succeed
StoreFaults == {[NoFaults EXCEPT !.store = d] : d \in (SUBSET Tables) \ {{}}}

\* a message handled while an audit write fails
AuditFails ==
    \E c \in FaultContexts, a \in PlainCreateInputs \cup QueryInputs, f \in AuditFaults :
        /\ f.store = {}
        /\ Dispatch(c[1], c[2], a, IdOrder, f)

\* a query handled while statements on entity tables fail
StoreFails ==
    \E c \in FaultContexts, a \in QueryInputs, f \in StoreFaults :
        /\ f.store # {}
        /\ Dispatch(c[1], c[2], a, IdOrder, f)

NextFaults == CreatePlain \/ AuditFails \/ StoreFails \/ SendResponse

SpecFaults == Init /\ [][NextFaults]_vars

-----------------------------------------------------------------------------
(* C21 *)

\* C21: a message handled while an audit write fails is classified, routed
\* and answered as it is when both audit writes succeed, and leaves the same
\* records.
C21_AuditFailureChangesNothing ==
    [][(/\ lastMsg.user = NULL /\ lastMsg'.user # NULL
        /\ (faults'.messageAudit \/ faults'.llmAudit))
          => LET ref == Route(lastMsg'.action, lastMsg'.user, lastMsg'.group, CurrentDb,
                              chkEnforced, members', IdOrder)
             IN /\ classified' = Called("action", TRUE)
                /\ lastResult' = ref.res
                /\ todos' = ref.db.todos /\ todoSeq' = ref.db.todoSeq
                /\ shopping' = ref.db.shopping /\ shopSeq' = ref.db.shopSeq
                /\ events' = ref.db.events /\ eventSeq' = ref.db.eventSeq]_vars

\* a task has been created and the creation answered while neither audit row
\* could be stored
C21_Witness ==
    /\ LastIs("todo", "create")
    /\ faults.messageAudit
    /\ audit = NoAudit
    /\ lastResult.success
    /\ todos # {}

-----------------------------------------------------------------------------
(* C22 *)

\* the tables a query reads
TablesQueried(action) ==
    CASE action.parameters.queryType = "todos" -> {"todos"}
      [] action.parameters.queryType = "shopping" -> {"shopping_items"}
      [] action.parameters.queryType = "calendar" -> {"calendar_events"}
      [] OTHER -> Tables

\* C22: a query during which a statement on one of the tables it reads fails
\* is answered with a failure.
C22_StoreFailureIsFailure ==
    (/\ lastMsg.user # NULL
     /\ lastMsg.action.action = "query"
     /\ faults.store \cap TablesQueried(lastMsg.action) # {})
        => ~lastResult.success

-----------------------------------------------------------------------------
(* Specification: the reminders of the scheduler. In this specification an
   instant is a minute since the epoch. *)

\* rounds of the every-minute reminder check
MaxTicks == 3

\* targetTime = now + 15 minutes
Lookahead == 15

\* diffMinutes >= 14 && diffMinutes <= 16
DiffFrom == 14

DiffTo == 16

\* tomorrow = now + 24 hours
DayMinutes == 1440

Abs(x) == IF x < 0 THEN 0 - x ELSE x

\* the filter of both checks, on an instant of a record
DiffInRange(instant, now) ==
    LET targetTime == now + Lookahead
        diffMinutes == Abs(instant - targetTime)
    IN diffMinutes >= DiffFrom /\ diffMinutes <= DiffTo

\* MessageAuditModel.getAllUsersWithChatIds: the users with a message_audit
\* row of a private chat; user 1 writes the messages of this specification
PrivateChats == {1}

\* checkUpcomingDeadlines: the tasks named in the reminders sent
CheckUpcomingDeadlines(db, now) ==
    UNION {{r.id : r \in {t \in SeqToSet(TodoFindByUser(db, userId, FALSE, NULL)) :
                              /\ t.deadline # NULL
                              /\ DiffInRange(t.deadline, now)}} :
           userId \in PrivateChats}

\* CalendarEventModel.findByUser with startDate and endDate
EventsBetween(db, userId, startDate, endDate) ==
    {r \in db.events :
        r.user_id = userId /\ r.start_time >= startDate /\ r.start_time <= endDate}

\* checkUpcomingEvents: the events named in the reminders sent
CheckUpcomingEvents(db, now) ==
    UNION {{r.id : r \in {e \in EventsBetween(db, userId,
                                              ToUTC(now, UserRow(userId).timezone),
                                              ToUTC(now + DayMinutes,
                                                    UserRow(userId).timezone)) :
                              DiffInRange(e.start_time, now)}} :
           userId \in PrivateChats}

\* the checks keep a record of what they sent, were there one
TickOnce(now) ==
    [now |-> now,
     todos |-> CheckUpcomingDeadlines(CurrentDb, now) \ scheduler.todos,
     events |-> CheckUpcomingEvents(CurrentDb, now) \ scheduler.events,
     before |-> [todos |-> scheduler.todos, events |-> scheduler.events]]

\* cron '* * * * *': checkUpcomingDeadlines and checkUpcomingEvents at now
Tick(now) ==
    [now |-> now,
     todos |-> CheckUpcomingDeadlines(CurrentDb, now),
     events |-> CheckUpcomingEvents(CurrentDb, now),
     before |-> [todos |-> scheduler.todos, events |-> scheduler.events]]

\* a minute passes and the reminder check runs
EveryMinute ==
    /\ scheduler.now < MaxTicks
    /\ scheduler' = Tick(scheduler.now + 1)
    /\ UNCHANGED <<chkEnforced, members, todos, shopping, events, todoSeq, shopSeq,
                   eventSeq, lastMsg, lastResult, scopeIn, scopeOut, classified,
                   faults, audit, zones, sessions>>

\* the instants the records of this specification are due: about now, in a
\* quarter of an hour, in half an hour
DueTimes == {1, 2, 16, 17, 18, 31, 32}

DueInputs ==
    {ParsedAction("todo", "create", <<"me", <<>>>>,
                  [NoParameters EXCEPT !.task = <<"t">>, !.deadline = d]) : d \in DueTimes}
    \cup {ParsedAction("calendar", "create", <<"me", <<>>>>,
                       [NoParameters EXCEPT !.title = <<"e">>, !.start_time = d]) :
             d \in DueTimes}
    \cup {ParsedAction("todo", "create", <<"me", <<>>>>, [NoParameters EXCEPT !.task = <<"t">>])}

\* a private message that creates a personal task or event
CreateDue ==
    \E a \in DueInputs :
        /\ a.operation = "create"
        /\ HandleMessage(1, NULL, a, IdOrder)

\* a private message that marks a task completed
CompleteDue ==
    \E id \in 1..MaxRows :
        /\ id < todoSeq
        /\ HandleMessage(1, NULL,
                         ParsedAction("todo", "mark_complete", Unscoped,
                                      [NoParameters EXCEPT !.id = id]), IdOrder)

NextScheduler == CreateDue \/ CompleteDue \/ EveryMinute \/ SendResponse

SpecScheduler == Init /\ [][NextScheduler]_vars

Ticked == scheduler.now >= 1

-----------------------------------------------------------------------------
(* C23 *)

\* C23: after a tick at minute t, the tasks reminded are the incomplete
\* personal tasks whose deadline lies from t+14 to t+16, and the events
\* reminded are the personal events whose start lies from t+14 to t+16.
C23_RemindedQuarterHourAhead ==
    Ticked
        => /\ \A r \in todos :
                (r.user_id \in PrivateChats /\ ~r.completed /\ r.deadline # NULL)
                    => (r.id \in scheduler.todos
                            <=> (/\ r.deadline >= scheduler.now + DiffFrom
                                 /\ r.deadline <= scheduler.now + DiffTo))
           /\ \A r \in events :
                r.user_id \in PrivateChats
                    => (r.id \in scheduler.events
                            <=> (/\ r.start_time >= scheduler.now + DiffFrom
                                 /\ r.start_time <= scheduler.now + DiffTo))

-----------------------------------------------------------------------------
(* C27 *)

\* C27: a task or event reminded at one tick and still within the filter of
\* the next tick is reminded again at that tick.
C27_RemindedAgainNextTick ==
    [][scheduler'.now # scheduler.now
          => /\ \A r \in todos :
                  (/\ r.id \in scheduler.todos
                   /\ r.user_id \in PrivateChats /\ ~r.completed
                   /\ DiffInRange(r.deadline, scheduler'.now))
                      => r.id \in scheduler'.todos
             /\ \A r \in events :
                  (/\ r.id \in scheduler.events
                   /\ r.user_id \in PrivateChats
                   /\ r.start_time >= scheduler'.now
                   /\ DiffInRange(r.start_time, scheduler'.now))
                      => r.id \in scheduler'.events]_vars

\* a task and an event have each been reminded at two ticks in a row
C27_Witness ==
    /\ scheduler.now >= 2
    /\ scheduler.todos \cap scheduler.before.todos # {}
    /\ scheduler.events \cap scheduler.before.events # {}

-----------------------------------------------------------------------------
(* Specification: two messages of a group chat handled at the same time, up
   to the membership step of handleMessage *)

Handlers == {1, 2}

\* what the steps before the classifier call leave alone
afterwards ==
    <<chkEnforced, todos, shopping, events, todoSeq, shopSeq, eventSeq, lastMsg,
      lastResult, scopeIn, scopeOut, classified, faults, audit, scheduler, zones>>

\* a handler between two messages
Idle == [pc |-> "idle", user |-> NULL, isMember |-> FALSE, threw |-> FALSE]

untouched ==
    <<chkEnforced, todos, shopping, events, todoSeq, shopSeq, eventSeq, lastMsg,
      lastResult, scopeIn, scopeOut, classified, faults, audit, scheduler>>

\* the rows of group_members of one user in one group
MemberRowsOf(rows, groupId, userId) ==
    {i \in 1..Len(rows) : rows[i] = <<groupId, userId>>}

\* GroupModel.isMember: SELECT 1 FROM group_members WHERE group_id = ? AND user_id = ?
IsMember(rows, groupId, userId) == MemberRowsOf(rows, groupId, userId) # {}

\* the INSERT on a table without the key unique_group_user
AddMemberNoKey(rows, groupId, userId) ==
    [rows |-> Append(rows, <<groupId, userId>>), threw |-> FALSE]

\* GroupModel.addMember: INSERT ... ON DUPLICATE KEY UPDATE joined_at = joined_at
\* under UNIQUE KEY unique_group_user (group_id, user_id)
AddMember(rows, groupId, userId) ==
    IF IsMember(rows, groupId, userId) THEN [rows |-> rows, threw |-> FALSE]
    ELSE [rows |-> Append(rows, <<groupId, userId>>), threw |-> FALSE]

InitMembers ==
    /\ chkEnforced = TRUE
    /\ members = {}
    /\ todos = {} /\ shopping = {} /\ events = {}
    /\ todoSeq = 1 /\ shopSeq = 1 /\ eventSeq = 1
    /\ lastMsg = NoMsg
    /\ lastResult = NoResult
    /\ scopeIn = NoScopeIn
    /\ scopeOut = NotParsed
    /\ classified = NoCall
    /\ faults = NoFaults
    /\ audit = NoAudit
    /\ scheduler = NoTick
    /\ zones = DefaultZones
    /\ sessions = [handlers |-> [h \in Handlers |-> Idle], rows |-> <<>>]

\* handleMessage of a message of the group chat, up to ensureGroupMember
Arrive(h) ==
    \E user \in {1, 2} :
        /\ sessions.handlers[h].pc = "idle"
        /\ sessions' = [sessions EXCEPT !.handlers[h] = [Idle EXCEPT !.pc = "isMember",
                                                                    !.user = user]]
        /\ UNCHANGED <<members, afterwards>>

\* ensureGroupMember: await GroupModel.isMember(groupId, userId)
AskIsMember(h) ==
    LET me == sessions.handlers[h]
        isMember == IsMember(sessions.rows, GroupId, me.user)
    IN /\ me.pc = "isMember"
       /\ sessions' = [sessions EXCEPT !.handlers[h].isMember = isMember,
                                       !.handlers[h].pc = IF isMember THEN "done"
                                                          ELSE "addMember"]
       /\ UNCHANGED <<members, afterwards>>

\* ensureGroupMember: if (!isMember) await GroupModel.addMember(groupId, userId)
AskAddMember(h) ==
    LET me == sessions.handlers[h] IN
    /\ me.pc = "addMember"
    /\ \E out \in {AddMember(sessions.rows, GroupId, me.user)} :
          /\ sessions' = [sessions EXCEPT !.rows = out.rows,
                                          !.handlers[h].threw = out.threw,
                                          !.handlers[h].pc = "done"]
          /\ members' = {out.rows[i][2] : i \in 1..Len(out.rows)}
    /\ UNCHANGED afterwards

\* the message is answered; the handler takes the next one
Leave(h) ==
    /\ sessions.handlers[h].pc = "done"
    /\ sessions' = [sessions EXCEPT !.handlers[h] = Idle]
    /\ UNCHANGED <<members, afterwards>>

NextMembers ==
    \E h \in Handlers : Arrive(h) \/ AskIsMember(h) \/ AskAddMember(h) \/ Leave(h)

SpecMembers == InitMembers /\ [][NextMembers]_vars

-----------------------------------------------------------------------------
(* C24 *)

\* C24: group_members holds at most one row of a user in the group, and the
\* membership step of no message throws.
C24_OneMembershipRow ==
    /\ \A user \in Users : Cardinality(MemberRowsOf(sessions.rows, GroupId, user)) <= 1
    /\ \A h \in Handlers : ~sessions.handlers[h].threw

\* two messages of user 1 have both seen 'not a member' and both have passed
\* addMember
C24_Witness ==
    /\ \A h \in Handlers :
          /\ sessions.handlers[h].pc = "done"
          /\ sessions.handlers[h].user = 1
          /\ ~sessions.handlers[h].isMember
    /\ Cardinality(MemberRowsOf(sessions.rows, GroupId, 1)) = 1

-----------------------------------------------------------------------------
(* Specification: timezone selections *)

\* the two buttons of the /timezone keyboard
ZoneButtons == {"Asia/Jerusalem", "UTC"}

\* GroupModel.update: the UPDATE statement sets group_name when updates names
\* it; no other key of updates is read
GroupUpdate(row, updates) ==
    IF "groupName" \in DOMAIN updates THEN [row EXCEPT !.group_name = updates.groupName]
    ELSE row

\* UserModel.update with { timezone }
UserUpdateTimezone(users, id, timezone) == [users EXCEPT ![id] = timezone]

\* the timezone a row of `groups` holds
GroupTimezone(row) == IF "timezone" \in DOMAIN row THEN row.timezone ELSE ""

\* a press on a button of the keyboard, in the group chat
SelectInGroup ==
    \E user \in Users, newTimezone \in ZoneButtons :
        /\ members' = EnsureGroupMember(members, GroupId, user)
        /\ zones' = [zones EXCEPT !.group = GroupUpdate(@, [timezone |-> newTimezone]),
                                  !.sender = user,
                                  !.selected = newTimezone,
                                  !.answer = "group timezone updated"]
        /\ UNCHANGED <<untouched, sessions>>

\* a press on a button of the keyboard, in a private chat
SelectInPrivate ==
    \E user \in Users, newTimezone \in ZoneButtons :
        /\ zones' = [zones EXCEPT !.users = UserUpdateTimezone(@, user, newTimezone),
                                  !.sender = user,
                                  !.selected = newTimezone,
                                  !.answer = "your timezone updated"]
        /\ UNCHANGED <<members, untouched, sessions>>

NextZones == SelectInGroup \/ SelectInPrivate

SpecZones == Init /\ [][NextZones]_vars

-----------------------------------------------------------------------------
(* C25 *)

\* C25: a selection in the group chat answered with the success message leaves
\* the selected zone as the timezone of the group's row and leaves every
\* user's timezone as it was.
C25_GroupTimezoneStored ==
    [][(zones' # zones /\ zones'.answer = "group timezone updated")
          => /\ GroupTimezone(zones'.group) = zones'.selected
             /\ zones'.users = zones.users]_vars

-----------------------------------------------------------------------------
(* C26 *)

\* C26: a todo mark_complete message whose id is null is answered with
\* success and leaves every task of the acting user completed.
C26_NullIdCompletesAll ==
    (LastIs("todo", "mark_complete") /\ lastMsg.action.parameters.id = NULL)
        => /\ lastResult.success
           /\ \A r \in todos : r.user_id = lastMsg.user => r.completed

-----------------------------------------------------------------------------
(* Specification: two updates of one task handled at the same time, statement
   by statement *)

\* the task both messages update, created by an earlier message of user 1
RacedTodo == TodoRow(1, 1, NULL, <<>>, <<"t">>, "medium", NULL, 1)

\* what the message of a handler may set: handler 1 writes 'u', high and
\* SomeDeadline, handler 2 writes 'v', low and the hour after
RaceParameters(h) ==
    LET task == IF h = 1 THEN <<"u">> ELSE <<"v">>
        priority == IF h = 1 THEN "high" ELSE "low"
        deadline == IF h = 1 THEN SomeDeadline ELSE SomeDeadline + 1
    IN {[NoParameters EXCEPT !.id = 1, !.task = t, !.priority = p, !.deadline = d] :
           t \in {UNDEF, task}, p \in {"", priority}, d \in {NULL, deadline}}

\* a handler that has no message yet
Waiting == [pc |-> "idle", updates |-> NoTodoUpdates, found |-> FALSE]

InitRace ==
    /\ chkEnforced = TRUE
    /\ members = {1, 2}
    /\ todos = {RacedTodo} /\ shopping = {} /\ events = {}
    /\ todoSeq = 2 /\ shopSeq = 1 /\ eventSeq = 1
    /\ lastMsg = NoMsg
    /\ lastResult = NoResult
    /\ scopeIn = NoScopeIn
    /\ scopeOut = NotParsed
    /\ classified = NoCall
    /\ faults = NoFaults
    /\ audit = NoAudit
    /\ scheduler = NoTick
    /\ zones = DefaultZones
    /\ sessions = [handlers |-> [h \in Handlers |-> Waiting], statements |-> <<>>]

raceUntouched ==
    <<chkEnforced, members, shopping, events, todoSeq, shopSeq, eventSeq, lastMsg,
      lastResult, scopeIn, scopeOut, classified, faults, audit, scheduler, zones>>

\* todoHandler.update up to the call of TodoModel.update
BeginUpdate(h) ==
    \E parameters \in RaceParameters(h) :
        /\ sessions.handlers[h].pc = "idle"
        /\ sessions' = [sessions EXCEPT
                          !.handlers[h].pc = "update",
                          !.handlers[h].updates = TodoUpdatesOf(parameters, 1)]
        /\ UNCHANGED <<todos, raceUntouched>>

\* TodoModel.update: await pool.execute(UPDATE todos SET ... WHERE id = ?)
RunUpdate(h) ==
    LET me == sessions.handlers[h] IN
    /\ me.pc = "update"
    /\ todos' = TodoUpdate(CurrentDb, RacedTodo.id, me.updates).todos
    /\ sessions' = [sessions EXCEPT !.handlers[h].pc = "select",
                                    !.statements = Append(@, me.updates)]
    /\ UNCHANGED raceUntouched

\* TodoModel.update: return this.findById(id); the handler throws on null
RunSelect(h) ==
    /\ sessions.handlers[h].pc = "select"
    /\ sessions' = [sessions EXCEPT
                      !.handlers[h].pc = "done",
                      !.handlers[h].found = TodoFindById(CurrentDb, RacedTodo.id) # {}]
    /\ UNCHANGED <<todos, raceUntouched>>

NextRace == \E h \in Handlers : BeginUpdate(h) \/ RunUpdate(h) \/ RunSelect(h)

SpecRace == InitRace /\ [][NextRace]_vars

-----------------------------------------------------------------------------
(* C28 *)

\* whether an UPDATE statement sets the column
Sets(updates, column) ==
    CASE column = "task" -> updates.task # UNDEF
      [] column = "priority" -> updates.priority # ""
      [] OTHER -> updates.hasDeadline

\* the value the last statement that set the column gave it, or the value of
\* the row as it was before both
RECURSIVE LastWrite(_, _)
LastWrite(statements, column) ==
    IF statements = <<>> THEN RacedTodo[column]
    ELSE LET last == statements[Len(statements)]
         IN IF Sets(last, column) THEN last[column]
            ELSE LastWrite(SubSeq(statements, 1, Len(statements) - 1), column)

\* C28: after any interleaving of the statements of two updates of one task,
\* each column holds the value of the last UPDATE statement that set it, and
\* an update that has finished has found the task.
C28_LastWriteWins ==
    /\ \A r \in todos :
          \A column \in {"task", "priority", "deadline"} :
              r[column] = LastWrite(sessions.statements, column)
    /\ \A h \in Handlers :
          sessions.handlers[h].pc = "done" => sessions.handlers[h].found

\* both updates have finished; one set only the task, the other only the
\* deadline, and the task holds both
C28_Witness ==
    /\ \A h \in Handlers : sessions.handlers[h].pc = "done"
    /\ \E r \in todos : r.task = <<"u">> /\ r.priority = "medium" /\ r.deadline = SomeDeadline + 1
    /\ Len(sessions.statements) = 2
    /\ Sets(sessions.statements[1], "deadline")

-----------------------------------------------------------------------------
(* Specification: two messages of senders the bot may not know yet, handled
   at the same time, up to the end of ensureUser *)

\* the chat-platform ids of two senders
TelegramIds == {71, 72}

\* the rows of users with a telegram_user_id
UserRowsOf(rows, telegramUserId) == {i \in 1..Len(rows) : rows[i] = telegramUserId}

\* UserModel.findByTelegramId
FindByTelegramId(rows, telegramUserId) == UserRowsOf(rows, telegramUserId) # {}

\* the INSERT on a table whose telegram_user_id is not UNIQUE
UserCreateNoKey(rows, telegramUserId) ==
    [rows |-> Append(rows, telegramUserId), threw |-> FALSE]

\* UserModel.create: INSERT INTO users; telegram_user_id is UNIQUE, the
\* duplicate-entry error of the statement is not caught
UserCreate(rows, telegramUserId) ==
    IF FindByTelegramId(rows, telegramUserId) THEN [rows |-> rows, threw |-> TRUE]
    ELSE [rows |-> Append(rows, telegramUserId), threw |-> FALSE]

\* a handler between two messages
Free == [pc |-> "idle", from |-> NULL, found |-> FALSE, threw |-> FALSE]

InitUsers ==
    /\ chkEnforced = TRUE
    /\ members = {}
    /\ todos = {} /\ shopping = {} /\ events = {}
    /\ todoSeq = 1 /\ shopSeq = 1 /\ eventSeq = 1
    /\ lastMsg = NoMsg
    /\ lastResult = NoResult
    /\ scopeIn = NoScopeIn
    /\ scopeOut = NotParsed
    /\ classified = NoCall
    /\ faults = NoFaults
    /\ audit = NoAudit
    /\ scheduler = NoTick
    /\ zones = DefaultZones
    /\ sessions = [handlers |-> [h \in Handlers |-> Free], rows |-> <<>>]

\* bot.on('message'): a text message arrives, handleMessage begins
Receive(h) ==
    \E from \in TelegramIds :
        /\ sessions.handlers[h].pc = "idle"
        /\ sessions' = [sessions EXCEPT !.handlers[h] = [Free EXCEPT !.pc = "find",
                                                                    !.from = from]]
        /\ UNCHANGED <<members, afterwards>>

\* ensureUser: await UserModel.findByTelegramId(telegramUser.id)
AskFindUser(h) ==
    LET me == sessions.handlers[h]
        found == FindByTelegramId(sessions.rows, me.from)
    IN /\ me.pc = "find"
       /\ sessions' = [sessions EXCEPT !.handlers[h].found = found,
                                       !.handlers[h].pc = IF found THEN "dispatch"
                                                          ELSE "create"]
       /\ UNCHANGED <<members, afterwards>>

\* ensureUser: if (!user) await UserModel.create(...); an error of the
\* statement leaves handleMessage and is caught by the handler of the message,
\* which answers with the error text; otherwise the message goes on to the
\* classifier and the router
AskCreateUser(h) ==
    LET me == sessions.handlers[h] IN
    /\ me.pc = "create"
    /\ \E out \in {UserCreate(sessions.rows, me.from)} :
          sessions' = [sessions EXCEPT !.rows = out.rows,
                                       !.handlers[h].threw = out.threw,
                                       !.handlers[h].pc = IF out.threw THEN "error"
                                                          ELSE "dispatch"]
    /\ UNCHANGED <<members, afterwards>>

\* the answer is sent; the handler takes the next message
Reply(h) ==
    /\ sessions.handlers[h].pc \in {"dispatch", "error"}
    /\ sessions' = [sessions EXCEPT !.handlers[h] = Free]
    /\ UNCHANGED <<members, afterwards>>

NextUsers ==
    \E h \in Handlers : Receive(h) \/ AskFindUser(h) \/ AskCreateUser(h) \/ Reply(h)

SpecUsers == InitUsers /\ [][NextUsers]_vars

\* the handler has passed ensureUser without having found the sender
PastCreate(h) ==
    /\ sessions.handlers[h].pc \in {"dispatch", "error"}
    /\ ~sessions.handlers[h].found

-----------------------------------------------------------------------------
(* C29 *)

\* C29: users holds at most one row of a chat-platform id; of two messages
\* of one sender that both found no user, one has its insert rejected, and
\* a message whose insert was rejected ends with the error answer, undispatched.
C29_OneUserRow ==
    /\ \A from \in TelegramIds : Cardinality(UserRowsOf(sessions.rows, from)) <= 1
    /\ \A h \in Handlers : sessions.handlers[h].threw => sessions.handlers[h].pc = "error"
    /\ \A h1, h2 \in Handlers :
          (/\ h1 # h2 /\ PastCreate(h1) /\ PastCreate(h2)
           /\ sessions.handlers[h1].from = sessions.handlers[h2].from)
              => (sessions.handlers[h1].threw # sessions.handlers[h2].threw)

\* two first messages of sender 71 both found no user; the insert of the
\* second was rejected
C29_Witness ==
    /\ PastCreate(1) /\ PastCreate(2)
    /\ sessions.handlers[1].from = 71 /\ sessions.handlers[2].from = 71
    /\ sessions.handlers[2].pc = "error"
    /\ sessions.handlers[1].pc = "dispatch"
    /\ Cardinality(UserRowsOf(sessions.rows, 71)) = 1

-----------------------------------------------------------------------------
(* C30 *)

\* the acting user is not the owner of the record, nor a member of its group,
\* nor among its assignees
Stranger(r, user) ==
    /\ r.user_id # user
    /\ r.group_id = NULL \/ user \notin members
    /\ user \notin SeqToSet(r.assigned_user_ids)

\* the stored records of the kind a message is about
StoredOf(kind) ==
    IF kind = "todo" THEN todos ELSE IF kind = "shopping" THEN shopping ELSE events

\* the step handles a message that names the id of a stored record the
\* sender is a stranger to
StrangerStep ==
    /\ lastMsg.user = NULL /\ lastMsg'.user # NULL
    /\ lastMsg'.action.operation \in {"update", "delete", "mark_complete", "mark_purchased"}
    /\ \E r \in StoredOf(lastMsg'.action.action) :
          r.id = lastMsg'.action.parameters.id /\ Stranger(r, lastMsg'.user)

\* C30: an update, delete, mark_complete or mark_purchased that names the id
\* of a stored record succeeds and changes or removes the record, also when
\* the sender is a stranger to the record.
C30_NoOwnershipCheck ==
    [][StrangerStep =>
          LET a == lastMsg'.action
              hits(rows) == {r \in rows : r.id = a.parameters.id}
          IN /\ lastResult'.success
             /\ a.operation = "delete" =>
                   hits(IF a.action = "todo" THEN todos'
                        ELSE IF a.action = "shopping" THEN shopping' ELSE events') = {}
             /\ a.operation = "mark_complete" => \A r \in hits(todos') : r.completed
             /\ a.operation = "mark_purchased" => \A r \in hits(shopping') : r.purchased
             /\ a.operation = "update" =>
                   /\ a.action = "todo" => \A r \in hits(todos') : r.priority = "high"
                   /\ a.action = "shopping" => \A r \in hits(shopping') : r.category = <<"d">>
                   /\ a.action = "calendar" => \A r \in hits(events') : r.title = <<"f">>]_vars

====
